---- MODULE Spec2Model ----
(***************************************************************************)
(* A model of the recipe backend's AI generation pipeline and of the      *)
(* generate-then-save flow: the model fallback driver, the response       *)
(* parser, the signing function, the token check and the save handler.    *)
(***************************************************************************)
EXTENDS Integers, Sequences, FiniteSets, TLC

(***************************************************************************)
(* JavaScript / JSON values.  Every value is a record [t, v]: t is the    *)
(* type tag and v the content.  An object is the SEQUENCE of its          *)
(* <<key, value>> members, because JSON.parse, the spread operator and    *)
(* JSON.stringify all keep the insertion order of the keys.               *)
(***************************************************************************)
Str(s) == [t |-> "str", v |-> s]
Num(n) == [t |-> "num", v |-> n]
Arr(s) == [t |-> "arr", v |-> s]
Obj(m) == [t |-> "obj", v |-> m]
\* What JSON.parse gives for a literal beyond the double range (1e999).
PosInfinity == [t |-> "inf", v |-> 0]
Null == [t |-> "null", v |-> 0]
Undefined == [t |-> "undef", v |-> 0]

Range(s) == {s[i] : i \in DOMAIN s}

HasKey(o, k) == \E i \in DOMAIN o.v : o.v[i][1] = k

\* o[k]: the value of member k, undefined when the object has no such key.
Get(o, k) ==
    IF HasKey(o, k)
    THEN o.v[CHOOSE i \in DOMAIN o.v : o.v[i][1] = k][2]
    ELSE Undefined

\* { ...o, [k]: val }: an existing key keeps its place, a new key is appended.
Spread(o, k, val) ==
    IF HasKey(o, k)
    THEN Obj([i \in DOMAIN o.v |-> IF o.v[i][1] = k THEN <<k, val>> ELSE o.v[i]])
    ELSE Obj(Append(o.v, <<k, val>>))


(***************************************************************************)
(* JSON.stringify.  A non-finite number is written as null, a member      *)
(* whose value is undefined is left out, an undefined array element is    *)
(* written as null; the members keep their order.  The result stands for  *)
(* the JSON text: two texts are equal iff these structures are equal.     *)
(***************************************************************************)
RECURSIVE JsonStringify(_)
JsonStringify(x) ==
    CASE x.t = "inf" -> Null
      [] x.t = "undef" -> Null
      [] x.t = "arr" -> Arr([i \in DOMAIN x.v |-> JsonStringify(x.v[i])])
      [] x.t = "obj" ->
           LET kept == SelectSeq(x.v, LAMBDA m : m[2].t # "undef")
           IN  Obj([i \in DOMAIN kept |-> <<kept[i][1], JsonStringify(kept[i][2])>>])
      [] OTHER -> x

\* A number literal of a JSON text beyond the double range, such as 1e999.
BigLiteral == [t |-> "big", v |-> 0]

\* JSON.parse of a well-formed text: the value the text denotes.  A number
\* literal beyond the double range parses to Infinity.
RECURSIVE JsonParse(_)
JsonParse(text) ==
    CASE text.t = "big" -> PosInfinity
      [] text.t = "arr" -> Arr([i \in DOMAIN text.v |-> JsonParse(text.v[i])])
      [] text.t = "obj" ->
           Obj([i \in DOMAIN text.v |-> <<text.v[i][1], JsonParse(text.v[i][2])>>])
      [] OTHER -> text

\* What the peer holds after a value went over HTTP as a JSON body.
OverTheWire(x) == JsonParse(JsonStringify(x))

(***************************************************************************)
(* middlewares/verifyRecipeToken: signRecipe.  The HMAC-SHA256 digest is  *)
(* modelled as collision-free: the digest of a payload under a key is the *)
(* pair of the two.                                                       *)
(***************************************************************************)
secret == "IlFautAjouterUnSecretDansLeFichierEnv"

createHmac(key, payload) == [t |-> "hex", v |-> <<key, payload>>]

\* Mutant of signRecipe: the object is given to update() as a string.
signRecipeToString(recipe) == createHmac(secret, Str("[object Object]"))

signRecipe(recipe) == createHmac(secret, JsonStringify(recipe))

\* JavaScript's !x for the values a header can hold.
Falsy(x) == x.t = "undef" \/ x.t = "null" \/ (x.t = "str" /\ x.v = "")

(***************************************************************************)
(* validators/recipes.schema: recipeSchema and zod's safeParse.           *)
(* z.object strips unknown keys and emits the known keys in the order of  *)
(* the schema.                                                            *)
(***************************************************************************)
recipeSchema ==
    << <<"title", "string">>, <<"description", "string">>,
       <<"ingredients", "string[]">>, <<"steps", "string[]">>,
       <<"kcal", "number>=0">>, <<"carbs", "number>=0">>,
       <<"protein", "number>=0">>, <<"fat", "number>=0">>,
       <<"imageSearch", "string">> >>

\* One zod field check.  z.number() of zod 3 accepts Infinity.
ZodAccepts(ty, x) ==
    CASE ty = "string" -> x.t = "str"
      [] ty = "string[]" -> x.t = "arr" /\ \A i \in DOMAIN x.v : x.v[i].t = "str"
      [] ty = "number>=0" -> (x.t = "num" /\ x.v >= 0) \/ x.t = "inf"
      [] ty = "number 1..5" -> x.t = "num" /\ x.v >= 1 /\ x.v <= 5
      [] ty = "string?" -> x.t = "undef" \/ x.t = "str"
      [] ty = "string[]?" ->
           x.t = "undef" \/ (x.t = "arr" /\ \A i \in DOMAIN x.v : x.v[i].t = "str")
      [] ty = "number>=0?" -> x.t = "undef" \/ (x.t = "num" /\ x.v >= 0) \/ x.t = "inf"
      [] OTHER -> FALSE

safeParse(schema, x) ==
    IF x.t = "obj" /\ \A i \in DOMAIN schema : ZodAccepts(schema[i][2], Get(x, schema[i][1]))
    THEN [success |-> TRUE,
          data |-> Obj([i \in DOMAIN schema |-> <<schema[i][1], Get(x, schema[i][1])>>])]
    ELSE [success |-> FALSE, data |-> Undefined]


(***************************************************************************)
(* The raw text of a model response is a sequence of chunks: white space, *)
(* prose (no bracket, no brace, no quote) and well-formed JSON texts.     *)
(***************************************************************************)
Ws == [t |-> "ws", v |-> 0]
Prose == [t |-> "prose", v |-> 0]
Json(text) == [t |-> "json", v |-> text]

\* String.prototype.trim: the leading and trailing white space goes.
trim(raw) ==
    LET ink == {i \in DOMAIN raw : raw[i].t # "ws"}
    IN  IF ink = {} THEN <<>>
        ELSE SubSeq(raw, CHOOSE i \in ink : \A j \in ink : i <= j,
                         CHOOSE i \in ink : \A j \in ink : i >= j)

\* Whether the JSON text holds a '[' (and so a ']').
RECURSIVE HasBracket(_)
HasBracket(text) ==
    CASE text.t = "arr" -> TRUE
      [] text.t = "obj" -> \E i \in DOMAIN text.v : HasBracket(text.v[i][2])
      [] OTHER -> FALSE

\* Whether the JSON text holds the characters "error" between double quotes:
\* as a key or as a whole string, at any depth.
RECURSIVE MentionsError(_)
MentionsError(text) ==
    CASE text.t = "str" -> text.v = "error"
      [] text.t = "arr" -> \E i \in DOMAIN text.v : MentionsError(text.v[i])
      [] text.t = "obj" ->
           \E i \in DOMAIN text.v :
              text.v[i][1] = "error" \/ MentionsError(text.v[i][2])
      [] OTHER -> FALSE

\* The part of one JSON text from its first '[' to its last ']': the text
\* itself for an array; for an object, the same part of its only member that
\* holds a bracket, and no JSON text at all when several members hold one.
RECURSIVE BracketSpan(_)
BracketSpan(text) ==
    IF text.t = "arr" THEN [kind |-> "json", text |-> text]
    ELSE LET holders == SelectSeq(text.v, LAMBDA m : HasBracket(m[2]))
         IN  IF Len(holders) = 1 THEN BracketSpan(holders[1][2])
             ELSE [kind |-> "junk", text |-> Null]

\* trimmed.match(/\[[\s\S]*]/): greedy, from the first '[' to the last ']'.
matchArray(trimmed) ==
    LET holders == {i \in DOMAIN trimmed :
                      trimmed[i].t = "json" /\ HasBracket(trimmed[i].v)}
    IN  IF holders = {} THEN [kind |-> "none", text |-> Null]
        ELSE IF Cardinality(holders) = 1
             THEN BracketSpan(trimmed[CHOOSE i \in holders : TRUE].v)
             ELSE [kind |-> "junk", text |-> Null]

(***************************************************************************)
(* utils/ai: parseAIRecipeJSON.                                           *)
(***************************************************************************)
\* Mutant of validRecipes: the array counts only when all its elements pass.
validRecipesAllOrNone(parsed) ==
    LET results == [i \in DOMAIN parsed.v |-> safeParse(recipeSchema, parsed.v[i])]
    IN  IF \A i \in DOMAIN results : results[i].success
        THEN [i \in DOMAIN results |-> results[i].data]
        ELSE <<>>

\* parsed.map(recipe => recipeSchema.safeParse(recipe)).filter(r => r.success)
\* .map(r => r.data).filter(Boolean)
validRecipes(parsed) ==
    LET results == [i \in DOMAIN parsed.v |-> safeParse(recipeSchema, parsed.v[i])]
        okResults == SelectSeq(results, LAMBDA r : r.success)
    IN  [i \in DOMAIN okResults |-> okResults[i].data]

\* Mutant of invalidFormat: the trimmed text is handed back.
invalidFormatTrimmed(raw, trimmed) == [status |-> "invalid_format", raw |-> trimmed]

\* { status: 'invalid_format', raw }
invalidFormat(raw, trimmed) == [status |-> "invalid_format", raw |-> raw]

\* What leaves the try block: a returned result, or an exception.
Throws == [status |-> "throws"]

\* The try block of parseAIRecipeJSON.
parseAIRecipeJSONTry(raw) ==
    LET trimmed == trim(raw)
        invalid == invalidFormat(raw, trimmed)
        looksLikeError ==
            /\ Len(trimmed) > 0
            /\ trimmed[1].t = "json" /\ trimmed[1].v.t = "obj"
            /\ \E i \in DOMAIN trimmed :
                  trimmed[i].t = "json" /\ MentionsError(trimmed[i].v)
        jsonMatch == matchArray(trimmed)
        parsed == JsonParse(jsonMatch.text)
        valid == validRecipes(parsed)
    IN  IF looksLikeError /\ Len(trimmed) > 1
        THEN Throws    \* JSON.parse(trimmed)
        ELSE IF looksLikeError /\ HasKey(JsonParse(trimmed[1].v), "error")
        THEN [status |-> "ai_error",
              message |-> Get(JsonParse(trimmed[1].v), "error")]
        ELSE IF jsonMatch.kind = "none" THEN invalid
        ELSE IF jsonMatch.kind = "junk" THEN Throws    \* JSON.parse(jsonMatch[0])
        ELSE IF Len(valid) = 0 THEN invalid
        ELSE [status |-> "ok", data |-> valid]

\* Mutant of parseAIRecipeJSON: the exception is not caught.
parseAIRecipeJSONNoCatch(raw) == parseAIRecipeJSONTry(raw)

\* parseAIRecipeJSON: the try block, and the catch that answers
\* invalid_format with the raw text.
parseAIRecipeJSON(raw) ==
    LET returned == parseAIRecipeJSONTry(raw)
    IN  IF returned = Throws THEN invalidFormat(raw, trim(raw)) ELSE returned


(***************************************************************************)
(* controllers/recipes.controller: sanitizeIngredient.  An ingredient of  *)
(* a request is a sequence of characters, "LF" being the line feed.       *)
(***************************************************************************)
toLowerChar(c) == IF c = "I" THEN "i" ELSE IF c = "E" THEN "e" ELSE c

\* The characters the class [^a-zA-Z0-9À-ÿ, \-'] keeps, of those the
\* ingredients modelled are written with (the others are "!" and "LF"); the
\* range À-ÿ spans the accented letters and the signs × and ÷.
AllowedChars ==
    {"a", "c", "e", "g", "h", "i", "k", "n", "o", "r", "I", "E",
     "1", "é", "×", ",", " ", "-", "'"}

ignoreWord == <<"i", "g", "n", "o", "r", "e">>

\* Where /ignore.*?$/i matches: the first "ignore", in any case, that no line
\* terminator follows ('.' stops at one and '$' is the end of the input);
\* 0 when there is no match.
ignoreMatchStart(str) ==
    LET hits == {p \in 1..(Len(str) - 5) :
                   /\ [i \in 1..6 |-> toLowerChar(str[p + i - 1])] = ignoreWord
                   /\ \A j \in (p + 6)..Len(str) : str[j] # "LF"}
    IN  IF hits = {} THEN 0 ELSE CHOOSE p \in hits : \A q \in hits : p <= q

\* trim() of a character sequence: only " " and "LF" are white space here.
trimChars(str) ==
    LET ink == {i \in DOMAIN str : str[i] \notin {" ", "LF"}}
    IN  IF ink = {} THEN <<>>
        ELSE SubSeq(str, CHOOSE i \in ink : \A j \in ink : i <= j,
                         CHOOSE i \in ink : \A j \in ink : i >= j)

\* Mutant of sanitizeIngredient: the characters outside the class are kept.
sanitizeIngredientAnyChar(ingredient) ==
    LET p == ignoreMatchStart(ingredient)
        cut == IF p = 0 THEN ingredient ELSE SubSeq(ingredient, 1, p - 1)
    IN  trimChars(cut)

sanitizeIngredient(ingredient) ==
    LET p == ignoreMatchStart(ingredient)
        cut == IF p = 0 THEN ingredient ELSE SubSeq(ingredient, 1, p - 1)
    IN  trimChars(SelectSeq(cut, LAMBDA c : c \in AllowedChars))

\* Mutant of sanitizeIngredients: the empty strings are kept.
sanitizeIngredientsUnfiltered(ingredients) ==
    [i \in DOMAIN ingredients |-> sanitizeIngredient(ingredients[i])]

\* ingredients.map(sanitizeIngredient).filter(Boolean)
sanitizeIngredients(ingredients) ==
    SelectSeq([i \in DOMAIN ingredients |-> sanitizeIngredient(ingredients[i])],
              LAMBDA str : str # <<>>)


(***************************************************************************)
(* utils/ai: the constants of the model fallback driver.                  *)
(***************************************************************************)
AI_MODELS ==
    <<"gpt-3.5-turbo", "microsoft/phi-3-medium-128k-instruct",
      "deepseek/deepseek-prover-v2:free">>
maxRetriesPerModel == 5
delayMs == 1000
\* parsed.data.length === 4
expectedRecipes == 4

placeholderUrl ==
    "https://recsports.utk.edu/wp-content/uploads/sites/46/2018/05/Image-not-available_1-800x800.jpg"

(***************************************************************************)
(* Bounds of the model and the inputs drawn within them.                  *)
(***************************************************************************)
\* The longest recipe array a model response holds.
MaxItems == 5

Titles == <<"Omelette", "Salad", "Soup", "Toast", "Stew", "Curry", "Pasta">>

\* The i-th recipe a model writes, all fields as the prompt asks.
GoodRecipe(i) ==
    Obj(<< <<"title", Str(Titles[i])>>, <<"description", Str("tasty")>>,
           <<"ingredients", Arr(<<Str("2 eggs")>>)>>,
           <<"steps", Arr(<<Str("whisk"), Str("fry")>>)>>,
           <<"kcal", Num(100 * i)>>, <<"carbs", Num(0)>>,
           <<"protein", Num(12)>>, <<"fat", Num(7)>>,
           <<"imageSearch", Str(Titles[i])>> >>)

\* The same recipe with the kcal member left out.
NoKcalRecipe(i) ==
    Obj(SelectSeq(GoodRecipe(i).v, LAMBDA m : m[1] # "kcal"))

\* The same recipe as a model may also write it: keys in another order, a
\* member the schema does not know, a calorie literal beyond the double range.
OddRecipe(i) ==
    Obj(<< <<"imageSearch", Str(Titles[i])>>, <<"note", Str("x")>>,
           <<"kcal", BigLiteral>> >>
        \o SelectSeq(GoodRecipe(i).v, LAMBDA m : m[1] \notin {"kcal", "imageSearch"}))

\* An array text of n recipes, the last `bad` of them without kcal; the
\* others are written plainly or (odd) in the odd way.
RecipeArray(n, bad, odd) ==
    Arr([i \in 1..n |->
           IF i > n - bad THEN NoKcalRecipe(i)
           ELSE IF odd THEN OddRecipe(i) ELSE GoodRecipe(i)])

ErrorObject ==
    Obj(<< <<"error", Str("No valid recipe can be created with the given ingredients.")>> >>)

\* The raw contents a chat-completion call may resolve with for the recipe
\* prompt.
GenerationTexts ==
    {<<>>, <<Prose>>, <<Json(ErrorObject)>>, <<Ws, Json(ErrorObject), Ws>>,
     <<Json(ErrorObject), Prose>>,
     <<Json(Obj(<< <<"recipes", RecipeArray(expectedRecipes, 0, FALSE)>> >>))>>,
     <<Json(GoodRecipe(1))>>}
    \cup {<<Json(RecipeArray(n, bad, FALSE))>> : n \in 0..MaxItems, bad \in 0..1}
    \cup {<<Prose, Ws, Json(RecipeArray(n, 0, TRUE)), Ws, Prose>> :
            n \in (expectedRecipes - 1)..MaxItems}

\* The raw contents a chat-completion call may resolve with for the
\* translation prompt.
TranslationTexts ==
    {<<Prose>>, <<Json(ErrorObject)>>, <<Json(Arr(<<>>))>>,
     <<Json(Arr(<<Str("egg"), Str("rice")>>))>>,
     <<Prose, Json(Arr(<<Str(" Egg "), Str("  ")>>)), Ws>>,
     <<Json(Arr(<<Str("  ")>>))>>,
     <<Json(Arr(<<Num(1)>>))>>}

\* The bodies of POST /generate requests (they satisfy generateSchema).
Egg == <<"e", "g", "g">>
Rice == <<"r", "i", "c", "e">>
IgnoreAll == <<"I", "g", "n", "o", "r", "e", " ", "a", "n", "n">>
Bang == <<"!", "!">>
GenerateBodies ==
    {[ingredients |-> <<Egg>>, mealType |-> Undefined, dietType |-> Undefined],
     [ingredients |-> <<Egg, Rice, IgnoreAll>>, mealType |-> Str("dinner"),
      dietType |-> Str("vegan")],
     [ingredients |-> <<Bang, IgnoreAll>>, mealType |-> Undefined,
      dietType |-> Undefined]}


(***************************************************************************)
(* State.                                                                 *)
(***************************************************************************)
VARIABLES
    pc,                 \* where the POST /generate request stands
    reqBody,            \* its body
    validIngredients,   \* what translateAndValidateIngredients returned
    translateModel,     \* index of the model of the translation loop
    modelIdx,           \* index of the model of the generation loop
    attempt,            \* attempt counter of the generation loop
    inflight,           \* chat-completion calls awaiting their answer
    translateCalls,     \* translation calls made, per model
    calls,              \* generation calls made, per model
    prompt,             \* model and variable parts of the last generation prompt
    lastParsed,         \* parseAIRecipeJSON of the last generation answer
    timerMs,            \* the delay being awaited, 0 when none
    delays,             \* delays awaited since the last generation call
    failures,           \* generation attempts that did not return
    sawAiError,         \* some generation answer parsed to ai_error
    okModel,            \* index of the model that first answered with
                        \* expectedRecipes valid recipes, 0 when none has
    result,             \* what generateRecipeWithRetry returned
    thrown,             \* the message of the error it threw, "" when none
    response,           \* the HTTP response sent
    photoCalls,         \* photo searches made (fetchImageForRecipe calls)
    photoLog,           \* what each photo search of the request did
    saves,              \* the POST /save requests: control point, user, body,
                        \* x-recipe-token header, response
    recipes,            \* the rows of the recipes table, in insertion order
    signed,             \* two signRecipe calls x and y: the argument, the digest
    sanitizeRun,        \* one run of the sanitizer: the ingredients, the output
    parseRun,           \* one call of parseAIRecipeJSON: the raw text, the result
    profiles,           \* the rows of the profiles table, by user id
    credentials,        \* the password of every auth user
    access,             \* the request behind checkMinRole: header, route, body,
                        \* req.user, response
    edits,              \* the PATCH and DELETE /recipes/:id requests
    favorites,          \* the rows of the favorites table
    favReqs,            \* the POST and DELETE /recipes/:id/favorites requests
    reviews,            \* the rows of the recipe_reviews table
    rateReqs            \* the POST /recipes/:id/rate requests

genVars ==
    <<pc, reqBody, validIngredients, translateModel, modelIdx, attempt, inflight,
      translateCalls, calls, prompt, lastParsed, timerMs, delays, failures,
      sawAiError, okModel, result, thrown, response, photoCalls, photoLog>>

saveVars == <<saves, recipes>>

pureVars == <<signed, sanitizeRun, parseRun>>

accessVars == <<profiles, credentials, access>>

favVars == <<favorites, favReqs>>

reviewVars == <<reviews, rateReqs>>

apiVars == <<accessVars, edits, favVars, reviewVars>>

vars == <<genVars, saveVars, pureVars, apiVars>>

None == [status |-> "none"]
NoResponse == [status |-> 0, message |-> "", data |-> <<>>]

\* middlewares/httpResponses: sendError and sendSuccess.
sendError(status, message) == [status |-> status, message |-> message, data |-> <<>>]
sendSuccess(status, message, data) == [status |-> status, message |-> message, data |-> data]

(***************************************************************************)
(* utils/ai: translateAndValidateIngredients, the body of one iteration.  *)
(***************************************************************************)
\* i.toLowerCase().trim() on the strings the translation texts hold.
lowerTrim(str) ==
    CASE str = " Egg " -> "egg"
      [] str = "  " -> ""
      [] OTHER -> str

\* What one iteration does with the answer `raw`: it throws (caught by the
\* loop, which goes on to the next model) or returns the cleaned list.
translateOnce(raw) ==
    LET match == matchArray(trim(raw))
        translated == JsonParse(match.text)
        mapped == [i \in DOMAIN translated.v |-> lowerTrim(translated.v[i].v)]
    IN  IF match.kind # "json" THEN [threw |-> TRUE, list |-> <<>>]
        ELSE IF \E i \in DOMAIN translated.v : translated.v[i].t # "str"
        THEN [threw |-> TRUE, list |-> <<>>]    \* toLowerCase is not a function
        ELSE [threw |-> FALSE, list |-> SelectSeq(mapped, LAMBDA str : str # "")]

(***************************************************************************)
(* utils/ai: generateRecipeWithRetry, the decisions of its loop.          *)
(***************************************************************************)
\* Mutants of IsSuccess: a success that is never seen, one that asks for more
\* recipes than were requested, one that takes any number of recipes.
IsSuccessNever(parsed) == FALSE
IsSuccessOverCount(parsed) ==
    parsed.status = "ok" /\ Len(parsed.data) > expectedRecipes
IsSuccessAnyCount(parsed) == parsed.status = "ok"

\* parsed.status === 'ok' && parsed.data.length === 4
IsSuccess(parsed) ==
    parsed.status = "ok" /\ Len(parsed.data) = expectedRecipes

\* Mutant of retryDelay: a delay that grows with the attempt number.
retryDelayGrowing(att) == delayMs * att

\* setTimeout(res, delayMs): the delay awaited after a failed attempt.
retryDelay(att) == delayMs

\* Mutant of HasNextAttempt: one more attempt than maxRetriesPerModel.
HasNextAttemptLong(att) == att + 1 <= maxRetriesPerModel + 1

\* Mutant of HasNextAttempt: the loop bound off by one.
HasNextAttemptShort(att) == att + 1 < maxRetriesPerModel

\* attempt <= maxRetriesPerModel, seen after attempt++.
HasNextAttempt(att) == att + 1 <= maxRetriesPerModel


(***************************************************************************)
(* utils/ai: fetchImageForRecipe, on what the photo search call did.      *)
(***************************************************************************)
\* threw: fetch or response.json() rejected; ok: the status of the response
\* is in 200..299; photos: the src.original of the photos of the body.
PhotoOutcomes ==
    {[threw |-> TRUE, ok |-> FALSE, photos |-> <<>>],
     [threw |-> FALSE, ok |-> TRUE, photos |-> <<>>],
     [threw |-> FALSE, ok |-> TRUE,
      photos |-> <<"https://images.pexels.com/photos/1/original.jpg">>],
     [threw |-> FALSE, ok |-> FALSE, photos |-> <<>>],
     [threw |-> FALSE, ok |-> FALSE,
      photos |-> <<"https://images.pexels.com/photos/1/original.jpg">>]}

\* What the n photo searches of one request did: one of them does one
\* thing, the others another.
PhotoRuns(n) ==
    {[i \in 1..n |-> IF i = k THEN one ELSE others] :
        k \in 1..n, one \in PhotoOutcomes, others \in PhotoOutcomes}

fetchImageForRecipe(outcome) ==
    IF outcome.threw THEN placeholderUrl
    ELSE IF Len(outcome.photos) = 0 \/ outcome.photos[1] = "" THEN placeholderUrl
    ELSE outcome.photos[1]

\* Mutant of recipeWithImageAndToken: the token is taken of the recipe before
\* the image is added.
recipeWithImageAndTokenEarly(recipe, image_url) ==
    LET fullRecipe == Spread(recipe, "image_url", Str(image_url))
    IN  [recipe |-> fullRecipe, token |-> signRecipe(recipe)]

\* controllers/recipes.controller: generateRecipes, one element of the
\* Promise.all: { recipe: { ...recipe, image_url }, token }.
recipeWithImageAndToken(recipe, image_url) ==
    LET fullRecipe == Spread(recipe, "image_url", Str(image_url))
    IN  [recipe |-> fullRecipe, token |-> signRecipe(fullRecipe)]

(***************************************************************************)
(* POST /generate: generateRecipes calling generateRecipeWithRetry.       *)
(***************************************************************************)
GenInit ==
    /\ pc = "idle"
    /\ reqBody = [ingredients |-> <<>>, mealType |-> Undefined, dietType |-> Undefined]
    /\ validIngredients = <<>>
    /\ translateModel = 1
    /\ modelIdx = 1
    /\ attempt = 1
    /\ inflight = 0
    /\ translateCalls = [m \in DOMAIN AI_MODELS |-> 0]
    /\ calls = [m \in DOMAIN AI_MODELS |-> 0]
    /\ prompt = [model |-> "", ingredients |-> <<>>, mealType |-> "", dietType |-> ""]
    /\ lastParsed = None
    /\ timerMs = 0
    /\ delays = 0
    /\ failures = 0
    /\ sawAiError = FALSE
    /\ okModel = 0
    /\ result = None
    /\ thrown = ""
    /\ response = NoResponse
    /\ photoCalls = 0
    /\ photoLog = <<>>

\* Mutant of HandlerCatches: the failure is answered 400 with the bare
\* message of the error.
HandlerCatchesAsRejection(message) ==
    /\ thrown' = message
    /\ response' = sendError(400, message)
    /\ pc' = "responded"

\* The catch of generateRecipes: the driver threw `message`.
HandlerCatches(message) ==
    /\ thrown' = message
    /\ response' = sendError(500, "Server error during recipe generation: Error: " \o message)
    /\ pc' = "responded"

\* generateRecipes up to its call of the driver, whose first step is the
\* translation loop.
GenerateRecipes ==
    /\ pc = "idle"
    /\ \E body \in GenerateBodies :
         /\ reqBody' = body
         /\ IF Len(sanitizeIngredients(body.ingredients)) = 0
            THEN /\ response' = sendError(400, "No valid ingredients provided")
                 /\ pc' = "responded"
            ELSE /\ response' = response
                 /\ pc' = "translate"
    /\ UNCHANGED <<validIngredients, translateModel, modelIdx, attempt, inflight,
                   translateCalls, calls, prompt, lastParsed, timerMs, delays,
                   failures, sawAiError, okModel, result, thrown>>
    /\ UNCHANGED <<photoCalls, photoLog, saveVars, pureVars, apiVars>>

\* translateAndValidateIngredients: openai.chat.completions.create is called.
TranslateCall ==
    /\ pc = "translate"
    /\ inflight' = inflight + 1
    /\ translateCalls' = [translateCalls EXCEPT ![translateModel] = @ + 1]
    /\ pc' = "translating"
    /\ UNCHANGED <<reqBody, validIngredients, translateModel, modelIdx, attempt, calls,
                   prompt, lastParsed, timerMs, delays, failures, sawAiError, okModel, result,
                   thrown, response>>
    /\ UNCHANGED <<photoCalls, photoLog, saveVars, pureVars, apiVars>>

\* The translation loop is over, having returned `list`.
TranslationReturns(list) ==
    /\ validIngredients' = list
    /\ IF Len(list) = 0
       THEN /\ HandlerCatches("Ingredient translation or validation failed.")
            /\ UNCHANGED translateModel
       ELSE /\ pc' = "generate"
            /\ UNCHANGED <<translateModel, thrown, response>>

\* One iteration of the translation loop, from the answer on: `failed` is a
\* rejected call, `raw` the content of a resolved one.
TranslateAnswer ==
    /\ pc = "translating"
    /\ inflight' = inflight - 1
    /\ \E failed \in BOOLEAN, raw \in TranslationTexts :
         LET once == IF failed THEN [threw |-> TRUE, list |-> <<>>]
                     ELSE translateOnce(raw)
         IN  IF ~once.threw THEN TranslationReturns(once.list)
             ELSE IF translateModel < Len(AI_MODELS)
             THEN /\ translateModel' = translateModel + 1
                  /\ pc' = "translate"
                  /\ UNCHANGED <<validIngredients, thrown, response>>
             ELSE TranslationReturns(<<>>)
    /\ UNCHANGED <<reqBody, modelIdx, attempt, translateCalls, calls, prompt,
                   lastParsed, timerMs, delays, failures, sawAiError, okModel, result>>
    /\ UNCHANGED <<photoCalls, photoLog, saveVars, pureVars, apiVars>>

\* A default parameter value: it stands in for undefined.
orNotSpecified(x) == IF x.t = "undef" THEN "NOT SPECIFIED" ELSE x.v

\* Mutant of recipePrompt: the last ingredient is left out of the list.
recipePromptShort(model, ingredients, mealType, dietType) ==
    [model |-> model, ingredients |-> SubSeq(ingredients, 1, Len(ingredients) - 1),
     mealType |-> orNotSpecified(mealType), dietType |-> orNotSpecified(dietType)]

\* The model and the interpolated parts of the template of the recipe prompt:
\* validIngredients.join(', '), mealType, dietType.
recipePrompt(model, ingredients, mealType, dietType) ==
    [model |-> model, ingredients |-> ingredients,
     mealType |-> orNotSpecified(mealType), dietType |-> orNotSpecified(dietType)]

\* The generation loop: openai.chat.completions.create is called with the
\* recipe prompt.
CreateCompletion ==
    /\ pc = "generate"
    /\ inflight' = inflight + 1
    /\ calls' = [calls EXCEPT ![modelIdx] = @ + 1]
    /\ prompt' = recipePrompt(AI_MODELS[modelIdx], validIngredients,
                              reqBody.mealType, reqBody.dietType)
    /\ delays' = 0
    /\ pc' = "generating"
    /\ UNCHANGED <<reqBody, validIngredients, translateModel, modelIdx, attempt,
                   translateCalls, lastParsed, timerMs, failures, sawAiError, okModel, result,
                   thrown, response>>
    /\ UNCHANGED <<photoCalls, photoLog, saveVars, pureVars, apiVars>>

\* The attempt failed: the delay is awaited.
AttemptFailed ==
    /\ failures' = failures + 1
    /\ timerMs' = retryDelay(attempt)
    /\ pc' = "delay"
    /\ UNCHANGED result

\* The call rejects (transport, quota): the catch branch.
CompletionRejects ==
    /\ pc = "generating"
    /\ inflight' = inflight - 1
    /\ lastParsed' = None
    /\ AttemptFailed
    /\ UNCHANGED <<reqBody, validIngredients, translateModel, modelIdx, attempt,
                   translateCalls, calls, prompt, delays, sawAiError, okModel, thrown,
                   response>>
    /\ UNCHANGED <<photoCalls, photoLog, saveVars, pureVars, apiVars>>

\* parseAIRecipeJSON of every content a generation call may resolve with.
parsedAnswer == [raw \in GenerationTexts |-> parseAIRecipeJSON(raw)]

\* The call resolves with the content `raw`, which is parsed and judged.
CompletionResolves ==
    /\ pc = "generating"
    /\ inflight' = inflight - 1
    /\ \E raw \in GenerationTexts :
         LET parsed == parsedAnswer[raw]
         IN  /\ lastParsed' = parsed
             /\ okModel' = IF okModel = 0 /\ parsed.status = "ok"
                                /\ Len(parsed.data) = expectedRecipes
                            THEN modelIdx ELSE okModel
             /\ sawAiError' = (sawAiError \/ parsed.status = "ai_error")
             /\ IF IsSuccess(parsed)
                THEN /\ result' = parsed
                     /\ pc' = "images"
                     /\ UNCHANGED <<failures, timerMs>>
                ELSE AttemptFailed
    /\ UNCHANGED <<reqBody, validIngredients, translateModel, modelIdx, attempt,
                   translateCalls, calls, prompt, delays, thrown, response>>
    /\ UNCHANGED <<photoCalls, photoLog, saveVars, pureVars, apiVars>>

\* The delay is over: attempt++, then the next attempt, the next model, or
\* the throw that ends the driver.
DelayElapsed ==
    /\ pc = "delay"
    /\ timerMs' = 0
    /\ delays' = delays + 1
    /\ IF HasNextAttempt(attempt)
       THEN /\ attempt' = attempt + 1
            /\ pc' = "generate"
            /\ UNCHANGED <<modelIdx, thrown, response>>
       ELSE IF modelIdx < Len(AI_MODELS)
       THEN /\ modelIdx' = modelIdx + 1
            /\ attempt' = 1
            /\ pc' = "generate"
            /\ UNCHANGED <<thrown, response>>
       ELSE /\ HandlerCatches("All models failed to generate a valid recipe.")
            /\ UNCHANGED <<modelIdx, attempt>>
    /\ UNCHANGED <<reqBody, validIngredients, translateModel, inflight, translateCalls,
                   calls, prompt, lastParsed, failures, sawAiError, okModel, result>>
    /\ UNCHANGED <<photoCalls, photoLog, saveVars, pureVars, apiVars>>

\* generateRecipes after the driver returned: the status checks, an image
\* and a token for every recipe, the answer.
RespondWithRecipes ==
    /\ pc = "images"
    /\ IF result.status = "ai_error"
       THEN response' = sendError(400, result.message)
            /\ UNCHANGED <<photoCalls, photoLog>>
       ELSE IF result.status = "invalid_format"
       THEN response' = sendError(500, "Invalid response from AI")
            /\ UNCHANGED <<photoCalls, photoLog>>
       ELSE /\ photoCalls' = photoCalls + Len(result.data)
            /\ \E outcomes \in PhotoRuns(Len(result.data)) :
                 /\ photoLog' = outcomes
                 /\ response' = sendSuccess(200, "Recipes generated successfully",
                     [i \in DOMAIN result.data |->
                        recipeWithImageAndToken(result.data[i],
                                                fetchImageForRecipe(outcomes[i]))])
    /\ pc' = "responded"
    /\ UNCHANGED <<reqBody, validIngredients, translateModel, modelIdx, attempt, inflight,
                   translateCalls, calls, prompt, lastParsed, timerMs, delays, failures,
                   sawAiError, okModel, result, thrown>>
    /\ UNCHANGED <<saveVars, pureVars, apiVars>>

Next ==
    \/ GenerateRecipes
    \/ TranslateCall
    \/ TranslateAnswer
    \/ CreateCompletion
    \/ CompletionRejects
    \/ CompletionResolves
    \/ DelayElapsed
    \/ RespondWithRecipes

\* POST /save is not exercised by this specification.
NoSaves ==
    /\ saves = <<>>
    /\ recipes = <<>>

NoSigned ==
    signed = [s \in {"x", "y"} |-> [recipe |-> Undefined, digest |-> Undefined]]

\* The sanitizer and the parser are not run on their own.
NoSanitizeRun == sanitizeRun = [pc |-> "none", ingredients |-> <<>>, output |-> <<>>]
NoParseRun == parseRun = [pc |-> "none", raw |-> <<>>, result |-> None]

\* No request of the other routes is under way; their tables are empty.
NoAccess ==
    /\ profiles = <<>>
    /\ credentials = <<>>
    /\ access = None

NoEdits == edits = <<>>

NoFavorites ==
    /\ favorites = <<>>
    /\ favReqs = <<>>

NoReviews ==
    /\ reviews = <<>>
    /\ rateReqs = <<>>

NoApi == NoAccess /\ NoEdits /\ NoFavorites /\ NoReviews

Init == GenInit /\ NoSaves /\ NoSigned /\ NoSanitizeRun /\ NoParseRun /\ NoApi

Spec == Init /\ [][Next]_vars

(***************************************************************************)
(* POST /save: checkMinRole('user'), validateFields(recipeSchema),        *)
(* verifyRecipeToken, saveGeneratedRecipe.  The requests modelled are     *)
(* those checkMinRole let through: req.user is set.                       *)
(***************************************************************************)
\* The requests the model follows at once.
MaxSaves == 2

Users == {"alice", "bob"}

\* middlewares/fieldsValidation: the body must satisfy the schema and is
\* handed on as it was received.
validateFields(schema, body) ==
    IF safeParse(schema, body).success
    THEN [next |-> TRUE, response |-> NoResponse]
    ELSE [next |-> FALSE, response |-> sendError(400, "Validation error")]

\* Mutant of verifyRecipeToken: the comparison left out.
verifyRecipeTokenPresenceOnly(token, recipe) ==
    IF Falsy(token)
    THEN [next |-> FALSE, response |-> sendError(400, "Missing token")]
    ELSE [next |-> TRUE, response |-> NoResponse]

\* middlewares/verifyRecipeToken: verifyRecipeToken, on the header value and
\* the body.
verifyRecipeToken(token, recipe) ==
    IF Falsy(token)
    THEN [next |-> FALSE, response |-> sendError(400, "Missing token")]
    ELSE IF token # signRecipe(recipe)
    THEN [next |-> FALSE, response |-> sendError(401, "Invalid token")]
    ELSE [next |-> TRUE, response |-> NoResponse]

\* What POST /generate handed to clients: validated recipes with an image
\* and a token.
GeneratedItems ==
    LET plain == safeParse(recipeSchema, JsonParse(GoodRecipe(1))).data
        odd == safeParse(recipeSchema, JsonParse(OddRecipe(2))).data
    IN  <<recipeWithImageAndToken(plain,
              fetchImageForRecipe([threw |-> FALSE, ok |-> TRUE, photos |->
                  <<"https://images.pexels.com/photos/1/original.jpg">>])),
          recipeWithImageAndToken(odd,
              fetchImageForRecipe([threw |-> TRUE, ok |-> FALSE, photos |-> <<>>]))>>

\* What a client does with the recipe of the item it received before it
\* posts it: nothing, or an edit of the JSON text.
ClientText(received, edit) ==
    LET text == JsonStringify(received)
    IN  CASE edit = "big" -> Spread(text, "kcal", BigLiteral)
          [] edit = "image" -> Spread(text, "image_url", Str("https://example.org/x.png"))
          [] edit = "reorder" -> Obj([i \in DOMAIN text.v |-> text.v[Len(text.v) + 1 - i]])
          [] edit = "no_kcal" -> Obj(SelectSeq(text.v, LAMBDA m : m[1] # "kcal"))
          [] OTHER -> text

\* The x-recipe-token header the client sends with item i.
ClientToken(i, header) ==
    CASE header = "absent" -> Undefined
      [] header = "empty" -> Str("")
      [] header = "other" -> GeneratedItems[IF i = 1 THEN 2 ELSE 1].token
      [] OTHER -> GeneratedItems[i].token

\* The posts of the clients: the item, the edit, the header.
SaveAttempts ==
    {<<1, "none", "item">>, <<2, "none", "item">>, <<2, "big", "item">>,
     <<1, "image", "item">>, <<1, "reorder", "item">>, <<1, "no_kcal", "item">>,
     <<1, "none", "absent">>, <<1, "none", "empty">>, <<1, "none", "other">>}

\* The body express.json() parses from each post.
PostedBody ==
    [att \in SaveAttempts |->
       JsonParse(ClientText(OverTheWire(GeneratedItems[att[1]].recipe), att[2]))]

NoSave ==
    [pc |-> "none", user |-> "", item |-> 0, edit |-> "", body |-> Undefined,
     token |-> Undefined, hash |-> Undefined, inserted |-> FALSE,
     response |-> NoResponse]

SaveInit ==
    /\ GenInit
    /\ saves = [r \in 1..MaxSaves |-> NoSave]
    /\ recipes = <<>>
    /\ NoSigned
    /\ NoSanitizeRun
    /\ NoParseRun
    /\ NoApi

Answered(r, resp) ==
    saves' = [saves EXCEPT ![r].pc = "done", ![r].response = resp]

\* The request arrives: validateFields, verifyRecipeToken, then
\* saveGeneratedRecipe up to the select it awaits.
PostSave(r) ==
    /\ saves[r].pc = "none"
    /\ \E user \in Users, att \in SaveAttempts :
         LET body == PostedBody[att]
             token == ClientToken(att[1], att[3])
             sent == [saves[r] EXCEPT !.user = user, !.item = att[1], !.edit = att[2],
                                      !.body = body, !.token = token]
             validated == validateFields(recipeSchema, body)
             verified == verifyRecipeToken(token, body)
         IN  IF ~validated.next
             THEN saves' = [saves EXCEPT ![r] = [sent EXCEPT !.pc = "done",
                                                  !.response = validated.response]]
             ELSE IF ~verified.next
             THEN saves' = [saves EXCEPT ![r] = [sent EXCEPT !.pc = "done",
                                                  !.response = verified.response]]
             ELSE saves' = [saves EXCEPT ![r] = [sent EXCEPT !.pc = "select",
                                                  !.hash = signRecipe(body)]]
    /\ UNCHANGED <<recipes, genVars, pureVars, apiVars>>

\* The rows .eq('user_id', user.id).eq('hash', token) selects.
ExistingRecipes(user, hash) ==
    SelectSeq(recipes, LAMBDA row : row.user_id = user /\ row.hash = hash)

\* The select answers: maybeSingle() gives an error for several rows, the
\* row for one, null for none; then the 409, or the insert is sent.
SelectReturns(r) ==
    /\ saves[r].pc = "select"
    /\ \E fault \in BOOLEAN :
         LET existing == ExistingRecipes(saves[r].user, saves[r].hash)
         IN  IF fault \/ Len(existing) > 1
             THEN Answered(r, sendError(500, "Database lookup error"))
             ELSE IF Len(existing) = 1
             THEN Answered(r, sendError(409, "Recipe already exists"))
             ELSE saves' = [saves EXCEPT ![r].pc = "insert"]
    /\ UNCHANGED <<recipes, genVars, pureVars, apiVars>>

\* The row .insert({...}) writes.
NewRow(recipe, user, token) ==
    [id |-> Len(recipes) + 1,
     title |-> Get(recipe, "title"), description |-> Get(recipe, "description"),
     ingredients |-> Get(recipe, "ingredients"), steps |-> Get(recipe, "steps"),
     kcal |-> Get(recipe, "kcal"), carbs |-> Get(recipe, "carbs"),
     protein |-> Get(recipe, "protein"), fat |-> Get(recipe, "fat"),
     image_url |-> Get(recipe, "image_url"),
     user_id |-> user, hash |-> token]

\* The insert answers: an error, or the row is written and the enriched
\* recipe is read back (getEnrichedRecipeById may throw).
InsertReturns(r) ==
    /\ saves[r].pc = "insert"
    /\ \E fault \in BOOLEAN, enrichThrows \in BOOLEAN :
         IF fault
         THEN /\ Answered(r, sendError(500, "Database insertion error"))
              /\ UNCHANGED recipes
         ELSE /\ recipes' = Append(recipes, NewRow(saves[r].body, saves[r].user, saves[r].hash))
              /\ saves' = [saves EXCEPT ![r].pc = "done", ![r].inserted = TRUE,
                                        ![r].response =
                             IF enrichThrows
                             THEN sendError(500, "Server error during recipe save")
                             ELSE sendSuccess(201, "Recipe saved successfully", <<>>)]
    /\ UNCHANGED <<genVars, pureVars, apiVars>>

SaveNext ==
    \E r \in 1..MaxSaves :
       \/ PostSave(r)
       \/ SelectReturns(r)
       \/ InsertReturns(r)

SaveSpec == SaveInit /\ [][SaveNext]_vars

(***************************************************************************)
(* signRecipe on the objects the program gives it: generateRecipes signs  *)
(* the validated recipe with its image_url, verifyRecipeToken and         *)
(* saveGeneratedRecipe sign the body of a post that met recipeSchema.     *)
(***************************************************************************)
\* The number of different recipes the signed objects are made from.
MaxSigned == 2

GeneratedRecipes ==
    {recipeWithImageAndToken(safeParse(recipeSchema, JsonParse(text)).data,
                             fetchImageForRecipe(outcome)).recipe :
        text \in {GoodRecipe(i) : i \in 1..MaxSigned} \cup {OddRecipe(i) : i \in 1..MaxSigned},
        outcome \in PhotoOutcomes}

PostedRecipes ==
    {JsonParse(ClientText(OverTheWire(g), edit)) :
        g \in GeneratedRecipes, edit \in {"none", "big", "image", "reorder"}}

RecipeObjects ==
    {o \in GeneratedRecipes \cup PostedRecipes : safeParse(recipeSchema, o).success}

\* One call signRecipe(o).
SignRecipe(s) ==
    /\ \E o \in RecipeObjects :
         signed' = [signed EXCEPT ![s] = [recipe |-> o, digest |-> signRecipe(o)]]
    /\ UNCHANGED <<apiVars, genVars, saveVars, sanitizeRun, parseRun>>

SignNext == \E s \in {"x", "y"} : SignRecipe(s)

SignSpec == Init /\ [][SignNext]_vars

(***************************************************************************)
(* The claims about signRecipe.                                           *)
(***************************************************************************)
BothSigned == signed["x"].recipe.t = "obj" /\ signed["y"].recipe.t = "obj"

Keys(o) == {o.v[i][1] : i \in DOMAIN o.v}

\* The two objects have the same keys and, key by key, the same values.
SameFields(a, b) ==
    /\ Keys(a) = Keys(b)
    /\ \A k \in Keys(a) : Get(a, k) = Get(b, k)

\* C7 as stated: two recipe objects with identical field values get the
\* identical digest, and two that differ in a field get different digests.
C7_SameFieldsSameDigest ==
    BothSigned =>
       (SameFields(signed["x"].recipe, signed["y"].recipe)
           <=> signed["x"].digest = signed["y"].digest)

\* C7, amended: signRecipe is a function of the serialised content: two
\* recipe objects with identical field values in the identical key order
\* get the identical digest, the same fields in another key order get
\* another digest, and two objects that differ in any field get different
\* digests (the keyed hash being collision-free).
C7_SameContentSameDigest ==
    BothSigned =>
       LET x == signed["x"].recipe
           y == signed["y"].recipe
           dx == signed["x"].digest
           dy == signed["y"].digest
       IN  /\ (x = y) <=> (dx = dy)
           /\ ~SameFields(x, y) => dx # dy
           /\ (SameFields(x, y) /\ x # y) => dx # dy

C7_Witness ==
    /\ BothSigned
    /\ ~SameFields(signed["x"].recipe, signed["y"].recipe)
    /\ safeParse(recipeSchema, signed["x"].recipe).data
          = safeParse(recipeSchema, signed["y"].recipe).data
    /\ Get(signed["x"].recipe, "kcal") = PosInfinity
    /\ signed["x"].digest # signed["y"].digest

(***************************************************************************)
(* The claims about POST /save.                                           *)
(***************************************************************************)
\* C4: POST /save is idempotent per user: whatever the interleaving of the
\* requests, the recipes table never holds two rows with the same
\* (user_id, hash), and a request that finds the content saved gets 409.
C4_SaveIdempotent ==
    \A i, j \in DOMAIN recipes :
       (recipes[i].user_id = recipes[j].user_id /\ recipes[i].hash = recipes[j].hash)
          => i = j

\* C5: a request that reaches verifyRecipeToken goes on to
\* saveGeneratedRecipe only if its x-recipe-token header is present and
\* equals signRecipe(body): a missing (absent or empty) token is answered
\* 400 and a token that differs 401, the handler is not run and the
\* request never inserts a row.
C5_TokenGuardsSave ==
    \A r \in DOMAIN saves :
       LET q == saves[r]
           reached == q.pc # "none" /\ safeParse(recipeSchema, q.body).success
           matches == ~Falsy(q.token) /\ q.token = signRecipe(q.body)
       IN  /\ (q.inserted \/ q.pc \in {"select", "insert"}) => matches
           /\ (reached /\ Falsy(q.token)) =>
                 (q.pc = "done" /\ q.response.status = 400 /\ ~q.inserted)
           /\ (reached /\ ~Falsy(q.token) /\ q.token # signRecipe(q.body)) =>
                 (q.pc = "done" /\ q.response.status = 401 /\ ~q.inserted)
           /\ Len(recipes) = Cardinality({x \in DOMAIN saves : saves[x].inserted})
           /\ \A i \in DOMAIN recipes :
                 \E x \in DOMAIN saves :
                    /\ saves[x].inserted /\ recipes[i].user_id = saves[x].user
                    /\ recipes[i].hash = signRecipe(saves[x].body)

C5_Witness ==
    \E a, b \in DOMAIN saves :
       /\ saves[a].response.status = 401 /\ saves[a].edit = "image"
       /\ saves[b].response.status = 400 /\ saves[b].token = Undefined
            /\ saves[b].edit = "none"
       /\ recipes = <<>>

(***************************************************************************)
(* The claim about POST /generate followed by POST /save.                 *)
(***************************************************************************)
\* C6: every item of a 200 answer of POST /generate holds a recipe with an
\* image_url and the token signRecipe(recipe), taken of the whole object;
\* the client receives the recipe as JSON, posts it back unchanged as JSON
\* with that token, and verifyRecipeToken lets the request through.
C6_GenerateThenSave ==
    (pc = "responded" /\ response.status = 200) =>
       \A i \in DOMAIN response.data :
          LET item == response.data[i]
              received == OverTheWire(item.recipe)
              body == OverTheWire(received)
          IN  /\ HasKey(item.recipe, "image_url")
              /\ item.token = signRecipe(item.recipe)
              /\ item.token = signRecipe(received)
              /\ verifyRecipeToken(item.token, body).next

C6_Witness ==
    /\ pc = "responded" /\ response.status = 200
    /\ Len(response.data) = expectedRecipes
    /\ \E i, j \in DOMAIN response.data :
          /\ Get(response.data[i].recipe, "kcal") = PosInfinity
          /\ Get(response.data[i].recipe, "image_url") = Str(placeholderUrl)
          /\ Get(response.data[j].recipe, "image_url") # Str(placeholderUrl)
          /\ verifyRecipeToken(response.data[j].token,
                               OverTheWire(response.data[j].recipe)).next

(***************************************************************************)
(* The claims about the model fallback driver.                            *)
(***************************************************************************)
AnsweredNow == pc = "generating" /\ pc' # "generating"
IsFullOk(parsed) == parsed.status = "ok" /\ Len(parsed.data) = expectedRecipes
IsPartialOrInvalid(parsed) ==
    \/ parsed.status = "invalid_format"
    \/ parsed.status = "ok" /\ Len(parsed.data) < expectedRecipes
TotalCalls == calls[1] + calls[2] + calls[3]
LoopEntered == Len(validIngredients) > 0

\* C1: when an answer parses to ai_error the driver returns that ai_error
\* result at once: it awaits no delay and makes no further call.
C1_AiErrorPropagates ==
    lastParsed.status = "ai_error" =>
        /\ result = lastParsed
        /\ pc \in {"images", "responded"}
        /\ TotalCalls = 1

\* C2: as soon as an answer parses to ok with 4 recipes the driver returns
\* exactly that result, and once it has returned no call is made any more.
C2_SuccessShortCircuits ==
    [][ /\ (AnsweredNow /\ IsFullOk(lastParsed')) =>
              (result' = lastParsed' /\ pc' = "images" /\ calls' = calls)
        /\ result # None =>
              (result' = result /\ calls' = calls /\ inflight' = 0) ]_vars

C2_Witness ==
    /\ pc = "responded" /\ response.status = 200
    /\ result.status = "ok" /\ modelIdx = 2 /\ attempt = 2 /\ TotalCalls = 7

\* A bound on the steps the request has left: every step lowers it, so
\* every run of the request is finite.
AttemptsLeft ==
    (Len(AI_MODELS) - modelIdx) * maxRetriesPerModel + (maxRetriesPerModel - attempt)
StepsLeft ==
    CASE pc = "responded" -> 0
      [] pc = "images" -> 1
      [] pc = "delay" -> 3 * AttemptsLeft + 2
      [] pc = "generating" -> 3 * AttemptsLeft + 3
      [] pc = "generate" -> 3 * AttemptsLeft + 4
      [] pc = "translating" ->
           3 * Len(AI_MODELS) * maxRetriesPerModel + 2 * (Len(AI_MODELS) - translateModel) + 2
      [] pc = "translate" ->
           3 * Len(AI_MODELS) * maxRetriesPerModel + 2 * (Len(AI_MODELS) - translateModel) + 3
      [] OTHER -> 3 * Len(AI_MODELS) * maxRetriesPerModel + 2 * Len(AI_MODELS) + 4

\* C3: when no answer had 4 valid recipes and none was an ai_error, the
\* driver ends (every step lowers StepsLeft and it never stops before the
\* response is sent), throwing the generic error after exactly
\* maxRetriesPerModel calls to each model, and returns no result.
C3_AllModelsFail ==
    /\ [][StepsLeft' < StepsLeft]_vars
    /\ [](StepsLeft >= 0 /\ (pc # "responded" => ENABLED Next))
    /\ [](pc = "responded" /\ LoopEntered /\ okModel = 0 /\ ~sawAiError =>
            /\ thrown = "All models failed to generate a valid recipe."
            /\ result = None
            /\ \A m \in DOMAIN AI_MODELS : calls[m] = maxRetriesPerModel
            /\ TotalCalls = 15
            /\ response.status = 500)

C3_Witness ==
    /\ pc = "responded" /\ LoopEntered /\ okModel = 0 /\ ~sawAiError
    /\ failures = 15 /\ lastParsed.status = "ok"

\* C8: when the first answer with 4 valid recipes comes from the first
\* model, on its k-th call after k-1 failed attempts, the driver returns
\* success after exactly k calls to that model and none to the others.
C8_SuccessOnKthAttempt ==
    okModel = 1 =>
        /\ result.status = "ok" /\ result = lastParsed
        /\ calls[1] = failures + 1 /\ calls[1] <= maxRetriesPerModel
        /\ calls[2] = 0 /\ calls[3] = 0

C8_Witness ==
    /\ okModel = 1 /\ failures = 2 /\ calls = <<3, 0, 0>>
    /\ pc = "responded" /\ response.status = 200

\* C9: an answer that parses to invalid_format, or to ok with fewer than 4
\* recipes, is a failed attempt: nothing is returned, the fixed delay is
\* awaited, and the driver goes on to the next attempt, or to the next
\* model once the attempts of the current one are used up.
C9_PartialIsFailure ==
    [][ /\ (AnsweredNow /\ IsPartialOrInvalid(lastParsed')) =>
              /\ result' = None /\ pc' = "delay" /\ timerMs' = delayMs
              /\ failures' = failures + 1
        /\ (pc = "delay" /\ IsPartialOrInvalid(lastParsed)) =>
              \/ pc' = "generate" /\ modelIdx' = modelIdx /\ attempt' = attempt + 1
              \/ /\ attempt = maxRetriesPerModel
                 /\ pc' = "generate" /\ modelIdx' = modelIdx + 1 /\ attempt' = 1
              \/ /\ attempt = maxRetriesPerModel /\ modelIdx = Len(AI_MODELS)
                 /\ pc' = "responded" /\ result' = None
        /\ result'.status = "ok" => Len(result'.data) = expectedRecipes ]_vars

C9_Witness ==
    /\ pc = "generate" /\ modelIdx = 2 /\ attempt = 1 /\ delays = 1
    /\ lastParsed.status = "ok" /\ Len(lastParsed.data) = expectedRecipes - 1

\* C10: the attempts are sequential: at most one chat-completion call is in
\* flight, none while a delay is awaited, and between a failed attempt and
\* the next one the same delay delayMs is awaited exactly once.
C10_SequentialFixedDelay ==
    /\ inflight \in {0, 1}
    /\ inflight = 1 <=> pc \in {"translating", "generating"}
    /\ timerMs \in {0, delayMs}
    /\ pc = "delay" => timerMs = delayMs
    /\ pc = "generate" => delays = (IF failures = 0 THEN 0 ELSE 1)

C10_Witness ==
    /\ pc = "delay" /\ modelIdx = 2 /\ attempt = 4 /\ timerMs = delayMs
    /\ inflight = 0

(***************************************************************************)
(* The sanitizer on its own: ingredients.map(sanitizeIngredient)          *)
(* .filter(Boolean) on lists of raw ingredient strings.                   *)
(***************************************************************************)
\* The most pieces a raw ingredient is written with.
MaxPieces == 2
\* The longest ingredient list.
MaxListLen == 3

Pieces ==
    {<<"e", "g", "g">>, <<"I", "g", "n", "o", "r", "E">>,
     <<"i", "g", "!", "n", "o", "r", "e">>, <<"LF">>, <<" ">>, <<"!">>,
     <<"é", "'", "1">>, <<"×", ",", "-">>}

RECURSIVE PieceStrings(_)
PieceStrings(n) ==
    IF n = 0 THEN {<<>>}
    ELSE LET shorter == PieceStrings(n - 1)
         IN  shorter \cup {a \o b : a \in shorter, b \in Pieces}

RawIngredients == PieceStrings(MaxPieces)

ListIngredients == {Egg, IgnoreAll, Bang, <<" ", "é", "!", "1", " ">>}

RECURSIVE ListsUpTo(_)
ListsUpTo(n) ==
    IF n = 0 THEN {<<>>}
    ELSE LET shorter == ListsUpTo(n - 1)
         IN  shorter \cup {Append(l, x) : l \in shorter, x \in ListIngredients}

RawLists == {<<str>> : str \in RawIngredients} \cup ListsUpTo(MaxListLen)

SanitizeInit ==
    /\ GenInit /\ NoSaves /\ NoSigned /\ NoParseRun /\ NoApi
    /\ sanitizeRun \in {[pc |-> "call", ingredients |-> l, output |-> <<>>] : l \in RawLists}

SanitizeIngredients ==
    /\ sanitizeRun.pc = "call"
    /\ sanitizeRun' = [sanitizeRun EXCEPT !.pc = "done",
                          !.output = sanitizeIngredients(sanitizeRun.ingredients)]
    /\ UNCHANGED <<apiVars, genVars, saveVars, signed, parseRun>>

SanitizeNext == SanitizeIngredients

SanitizeSpec == SanitizeInit /\ [][SanitizeNext]_vars

(***************************************************************************)
(* The claims about the sanitizer.                                        *)
(***************************************************************************)
\* The indices of the ingredients that do not sanitise to the empty string.
Survivors(ingredients) ==
    {i \in DOMAIN ingredients : sanitizeIngredient(ingredients[i]) # <<>>}

\* The k-th smallest element of a set of numbers.
Kth(set, k) == CHOOSE i \in set : Cardinality({j \in set : j <= i}) = k

IgnoreThenText(str) ==
    \E p \in 1..(Len(str) - 6) :
       [i \in 1..6 |-> toLowerChar(str[p + i - 1])] = ignoreWord

\* C13: no element of the sanitizer's output holds the word 'ignore' (in any
\* case) followed by text.
C13_OverrideStripped ==
    sanitizeRun.pc = "done" =>
       \A k \in DOMAIN sanitizeRun.output : ~IgnoreThenText(sanitizeRun.output[k])

(***************************************************************************)
(* The parser on its own: parseAIRecipeJSON on raw texts.                 *)
(***************************************************************************)
\* The most elements of an array text, the most chunks of a raw text.
MaxElems == 2
MaxChunks == 2

EmptyTitleRecipe == Spread(GoodRecipe(5), "title", Str(""))
NegativeKcalRecipe == Spread(GoodRecipe(6), "kcal", Num(0 - 1))
ErrorTitleRecipe == Spread(GoodRecipe(7), "title", Str("error"))

\* What a model may write as an element of its array.
ElementTexts ==
    {GoodRecipe(1), GoodRecipe(2), NoKcalRecipe(3), OddRecipe(4),
     EmptyTitleRecipe, NegativeKcalRecipe, Num(1)}

RECURSIVE ElementSeqs(_)
ElementSeqs(n) ==
    IF n = 0 THEN {<<>>}
    ELSE LET shorter == ElementSeqs(n - 1)
         IN  shorter \cup {Append(l, x) : l \in shorter, x \in ElementTexts}

\* What a model may write besides white space and prose.
JsonTexts ==
    {ErrorObject,
     Obj(<< <<"error", Num(1)>> >>),
     Obj(<< <<"reason", Str("error")>> >>),
     Obj(<< <<"error", Str("none")>>, <<"recipes", Arr(<<GoodRecipe(1)>>)>> >>),
     Obj(<< <<"recipes", Arr(<<GoodRecipe(1), GoodRecipe(2)>>)>> >>),
     Obj(<< <<"recipes", Arr(<<ErrorTitleRecipe>>)>> >>),
     GoodRecipe(1),
     Arr(<<GoodRecipe(1), NoKcalRecipe(2)>>)}

Chunks == {Ws, Prose} \cup {Json(text) : text \in JsonTexts}

RECURSIVE ChunkSeqs(_)
ChunkSeqs(n) ==
    IF n = 0 THEN {<<>>}
    ELSE LET shorter == ChunkSeqs(n - 1)
         IN  shorter \cup {Append(l, x) : l \in shorter, x \in Chunks}

ParserTexts ==
    ChunkSeqs(MaxChunks)
       \cup {<<Json(Arr(elems))>> : elems \in ElementSeqs(MaxElems)}
       \cup {<<Ws, Prose, Json(Arr(elems)), Prose, Ws>> : elems \in ElementSeqs(MaxElems)}

ParseInit ==
    /\ GenInit /\ NoSaves /\ NoSigned /\ NoSanitizeRun /\ NoApi
    /\ parseRun \in {[pc |-> "call", raw |-> raw, result |-> None] : raw \in ParserTexts}

ParseAIRecipeJSON ==
    /\ parseRun.pc = "call"
    /\ parseRun' = [parseRun EXCEPT !.pc = "done",
                                    !.result = parseAIRecipeJSON(parseRun.raw)]
    /\ UNCHANGED <<apiVars, genVars, saveVars, signed, sanitizeRun>>

ParseNext == ParseAIRecipeJSON

ParseSpec == ParseInit /\ [][ParseNext]_vars

(***************************************************************************)
(* The claims about the input rejection of POST /generate.                *)
(***************************************************************************)
NoCallMade ==
    /\ \A m \in DOMAIN AI_MODELS : translateCalls[m] = 0 /\ calls[m] = 0
    /\ inflight = 0
    /\ photoCalls = 0

\* C11: a request all of whose ingredients sanitise to the empty string is
\* answered by the first step of the handler with 400 'No valid ingredients
\* provided', no chat-completion call and no photo search having been made.
C11_NoValidIngredients ==
    (pc # "idle" /\ \A i \in DOMAIN reqBody.ingredients :
                       sanitizeIngredient(reqBody.ingredients[i]) = <<>>) =>
       /\ pc = "responded"
       /\ response = sendError(400, "No valid ingredients provided")
       /\ NoCallMade
       /\ result = None /\ thrown = ""

C11_Witness ==
    /\ pc = "responded"
    /\ reqBody.ingredients = <<Bang, IgnoreAll>>
    /\ response.status = 400
    /\ NoCallMade

(***************************************************************************)
(* The claims about the recipe prompt.                                    *)
(***************************************************************************)
\* The string a sequence of characters spells.
Spelled(chars) ==
    CASE chars = Egg -> "egg"
      [] chars = Rice -> "rice"
      [] OTHER -> "?"

SanitizedAsStrings ==
    LET sanitized == sanitizeIngredients(reqBody.ingredients)
    IN  [i \in DOMAIN sanitized |-> Spelled(sanitized[i])]

ReturnedFourRecipes ==
    result.status = "ok" =>
       /\ result = lastParsed
       /\ Len(result.data) = expectedRecipes
       /\ \A i \in DOMAIN result.data : safeParse(recipeSchema, result.data[i]).success

TranslationOver ==
    /\ translateCalls[1] > 0
    /\ pc \notin {"idle", "translate", "translating"}

EveryTranslationModelCalled == \A m \in DOMAIN AI_MODELS : translateCalls[m] = 1

\* C15: the translation driver calls each model at most once and in the
\* order of the list, makes no call after the one whose answer it returns,
\* and returns the empty sequence only when every model has been called and
\* has failed.
C15_TranslationDriver ==
    /\ \A m \in DOMAIN AI_MODELS :
          /\ translateCalls[m] <= 1
          /\ (m > 1 /\ translateCalls[m] = 1) => translateCalls[m - 1] = 1
          /\ translateCalls[m] = 1 => m <= translateModel
    /\ (TranslationOver /\ validIngredients = <<>>) => EveryTranslationModelCalled

\* C16: when the translation driver returns the empty sequence, no
\* generation call is made and the request is answered as a request without
\* valid ingredients is: 400 'No valid ingredients provided'.
C16_EmptyTranslationRejected ==
    (TranslationOver /\ validIngredients = <<>>) =>
       /\ \A m \in DOMAIN AI_MODELS : calls[m] = 0
       /\ photoCalls = 0
       /\ pc = "responded"
       /\ response = sendError(400, "No valid ingredients provided")

(***************************************************************************)
(* The claims about parseAIRecipeJSON.                                    *)
(***************************************************************************)
ParseDone == parseRun.pc = "done"

\* The trimmed text is one JSON object with an "error" member.
IsErrorObject(raw) ==
    /\ Len(trim(raw)) = 1
    /\ trim(raw)[1].t = "json" /\ trim(raw)[1].v.t = "obj"
    /\ HasKey(trim(raw)[1].v, "error")

\* The trimmed text starts with '{'.
StartsWithObject(raw) ==
    /\ Len(trim(raw)) > 0
    /\ trim(raw)[1].t = "json" /\ trim(raw)[1].v.t = "obj"

\* The text holds "error" between quotes.
HoldsErrorMarker(raw) ==
    \E i \in DOMAIN raw : raw[i].t = "json" /\ MentionsError(raw[i].v)

\* JSON.parse(trimmed) of the error test throws: text follows the object.
ThrowsInErrorTest(raw) ==
    StartsWithObject(raw) /\ HoldsErrorMarker(raw) /\ Len(trim(raw)) > 1

\* The text is past the error test and its array substring parses: the
\* elements of the parsed array.
ReachesArray(raw) ==
    /\ ~IsErrorObject(raw) /\ ~ThrowsInErrorTest(raw)
    /\ matchArray(trim(raw)).kind = "json"
ArrayElements(raw) == JsonParse(matchArray(trim(raw)).text).v

\* The element has the shape of recipeSchema.
HasRecipeShape(x) ==
    /\ x.t = "obj"
    /\ \A i \in DOMAIN recipeSchema : ZodAccepts(recipeSchema[i][2], Get(x, recipeSchema[i][1]))

C18_ValidatedRecipeShape ==
    (ParseDone /\ parseRun.result.status = "ok") =>
       \A k \in DOMAIN parseRun.result.data :
          LET recipe == parseRun.result.data[k]
              IsText(x) == x.t = "str"
              IsTexts(x) == x.t = "arr" /\ \A i \in DOMAIN x.v : x.v[i].t = "str"
              IsAmount(x) == (x.t = "num" /\ x.v >= 0) \/ x.t = "inf"
          IN  /\ IsText(Get(recipe, "title")) /\ Get(recipe, "title").v # ""
              /\ IsText(Get(recipe, "description"))
              /\ IsTexts(Get(recipe, "ingredients"))
              /\ IsTexts(Get(recipe, "steps"))
              /\ \A f \in {"kcal", "carbs", "protein", "fat"} : IsAmount(Get(recipe, f))
              /\ IsText(Get(recipe, "imageSearch"))

\* C19: a text whose trimmed form starts with '{' and holds the error marker
\* gives ai_error with the message of the object, never ok.
C19_ErrorObjectIsAiError ==
    (ParseDone /\ StartsWithObject(parseRun.raw) /\ HoldsErrorMarker(parseRun.raw)) =>
       /\ parseRun.result.status = "ai_error"
       /\ parseRun.result.message = Get(JsonParse(trim(parseRun.raw)[1].v), "error")

\* C20: a text that is not an error object and has no array substring, or
\* an array substring that does not parse, gives invalid_format with the
\* text as it came, white space included.
C20_InvalidFormatKeepsRaw ==
    (ParseDone /\ ~IsErrorObject(parseRun.raw)
               /\ matchArray(trim(parseRun.raw)).kind \in {"none", "junk"}) =>
       parseRun.result = [status |-> "invalid_format", raw |-> parseRun.raw]

C20_Witness ==
    /\ ParseDone
    /\ parseRun.raw = <<Ws, Prose>>
    /\ parseRun.result = [status |-> "invalid_format", raw |-> <<Ws, Prose>>]

\* C21: for every text parseAIRecipeJSON returns a result, and the result
\* is exactly one of ok with a non-empty list of recipes, ai_error with a
\* message, invalid_format with the raw text; no exception leaves it.
C21_ParserIsTotal ==
    ParseDone =>
       LET answer == parseRun.result
       IN  \/ /\ answer.status = "ok"
              /\ DOMAIN answer = {"status", "data"}
              /\ Len(answer.data) > 0
           \/ /\ answer.status = "ai_error"
              /\ DOMAIN answer = {"status", "message"}
              /\ answer.message.t # "undef"
           \/ /\ answer.status = "invalid_format"
              /\ DOMAIN answer = {"status", "raw"}
              /\ answer.raw = parseRun.raw

C21_Witness ==
    /\ ParseDone
    /\ parseAIRecipeJSONTry(parseRun.raw) = Throws
    /\ parseRun.result.status = "invalid_format"
    /\ parseRun.result.raw = parseRun.raw

(***************************************************************************)
(* The image resolver within POST /generate.                               *)
(***************************************************************************)
\* The photo search failed in the claim's sense: a network error, a
\* non-OK status, or no result.
SearchFailed(outcome) ==
    outcome.threw \/ ~outcome.ok \/ Len(outcome.photos) = 0

ImagesResolved == pc = "responded" /\ Len(photoLog) > 0

\* C22: fetchImageForRecipe never raises: after a network error, a non-OK
\* status or an empty result the recipe carries the placeholder URL, else
\* the URL of the first result; whatever the photo searches did, the
\* generation that succeeded is answered 200 with every recipe.
C22_ImageNeverFails ==
    ImagesResolved =>
       /\ response.status = 200
       /\ Len(response.data) = Len(result.data)
       /\ \A i \in DOMAIN photoLog :
             Get(response.data[i].recipe, "image_url") =
                 Str(IF SearchFailed(photoLog[i]) THEN placeholderUrl
                     ELSE photoLog[i].photos[1])

(***************************************************************************)
(* What POST /generate answers.                                            *)
(***************************************************************************)
\* 200 with a populated list: the validated recipes the driver returned,
\* each with an image URL and a token.
AnswersRecipeList ==
    /\ response.status = 200
    /\ result.status = "ok"
    /\ Len(response.data) > 0
    /\ Len(response.data) = Len(result.data)
    /\ \A i \in DOMAIN response.data :
          \E url \in {placeholderUrl} \cup {o.photos[1] : o \in {p \in PhotoOutcomes : Len(p.photos) > 0}} :
             response.data[i] = recipeWithImageAndToken(result.data[i], url)

\* 400 with the message the model supplied.
AnswersModelMessage ==
    /\ response.status = 400
    /\ result.status = "ai_error"
    /\ response.message = result.message
    /\ response.data = <<>>

\* 500 with a generic message that holds nothing of a model's text.
AnswersGenericFailure ==
    /\ response.status = 500
    /\ response.message \in
          {"Server error during recipe generation: Error: All models failed to generate a valid recipe.",
           "Server error during recipe generation: Error: Ingredient translation or validation failed.",
           "Invalid response from AI"}
    /\ response.data = <<>>

\* 400 of the handler's own first step.
AnswersNoValidIngredients ==
    response = sendError(400, "No valid ingredients provided")

\* C23 as stated: the answer of POST /generate is one of a populated recipe
\* list (200), the message the model supplied (400), a generic failure
\* (500).
C23_ThreeAnswers ==
    pc = "responded" =>
       \/ AnswersRecipeList
       \/ AnswersModelMessage
       \/ AnswersGenericFailure

\* C23: the answer of POST /generate is one of a populated recipe list
\* (200), the message the model supplied (400), 400 'No valid ingredients
\* provided' of the handler's own check, a generic failure (500); the raw
\* text of an invalid_format result is in none of them.
C23_AnswersHoldNoRawText ==
    pc = "responded" =>
       \/ AnswersRecipeList
       \/ AnswersModelMessage
       \/ AnswersNoValidIngredients
       \/ AnswersGenericFailure

\* The last model answer was invalid_format and holds the raw text; the
\* request was answered with the generic failure.
C23_Witness ==
    /\ pc = "responded"
    /\ lastParsed.status = "invalid_format"
    /\ Len(lastParsed.raw) > 0
    /\ AnswersGenericFailure

(***************************************************************************)
(* The order in which the driver calls the models.                         *)
(***************************************************************************)
\* C24: the models are called in the order of AI_MODELS: a model has been
\* called only when every model before it has been called exactly
\* maxRetriesPerModel times and none of these calls was a success, and no
\* model is called more than maxRetriesPerModel times.
C24_ModelsInListOrder ==
    /\ \A m \in DOMAIN AI_MODELS : calls[m] <= maxRetriesPerModel
    /\ \A m \in DOMAIN AI_MODELS : m > modelIdx => calls[m] = 0
    /\ \A m \in DOMAIN AI_MODELS :
          calls[m] > 0 =>
             \A k \in 1..(m - 1) :
                /\ calls[k] = maxRetriesPerModel
                /\ okModel # k
    /\ (pc \in {"generating", "delay"}) => calls[modelIdx] = attempt

\* The last model has been called after the first two were used up.
C24_Witness ==
    /\ pc = "generating"
    /\ modelIdx = Len(AI_MODELS)
    /\ calls = <<maxRetriesPerModel, maxRetriesPerModel, 1>>

(***************************************************************************)
(* types/role, middlewares/checkMinRole and controllers/users.controller: *)
(* the routes of /users behind checkMinRole.                               *)
(***************************************************************************)
Roles == [USER |-> "user", ADMIN |-> "admin", SUPER_ADMIN |-> "super_admin"]

\* rolePriority[role]: undefined for a key the record does not hold.
rolePriority(role) ==
    CASE role = Roles.USER -> Num(1)
      [] role = Roles.ADMIN -> Num(2)
      [] role = Roles.SUPER_ADMIN -> Num(3)
      [] OTHER -> Undefined

\* a < b and a <= b of JavaScript on these values: undefined converts to
\* NaN, and every comparison with NaN is false.
Less(a, b) == a.t = "num" /\ b.t = "num" /\ a.v < b.v
LessEq(a, b) == a.t = "num" /\ b.t = "num" /\ a.v <= b.v

\* The role of a profile row that was given none: register inserts id and
\* name only.
UnsetRole == "null"

NoProfile == [present |-> FALSE, name |-> "", role |-> ""]
Profile(name, role) == [present |-> TRUE, name |-> name, role |-> role]

\* The profiles tables the requests start from.
InitialProfiles ==
    {[alice |-> Profile("Alice", aliceRole), bob |-> bobRow] :
        aliceRole \in {Roles.USER, Roles.ADMIN, Roles.SUPER_ADMIN, UnsetRole},
        bobRow \in {Profile("Bob", Roles.USER), Profile("Bob", Roles.ADMIN), NoProfile}}

\* The authorization header as authHeader.split(' ') sees it; <<>> is the
\* absent header.
AuthHeaders ==
    {<<>>, <<"Bearer">>, <<"Bearer", "expired">>,
     <<"Bearer", "token-alice">>, <<"Bearer", "token-bob">>}

\* supabase.auth.getUser(token): the id of the user, "" with the error.
getUser(token) ==
    CASE token = "token-alice" -> "alice"
      [] token = "token-bob" -> "bob"
      [] OTHER -> ""

\* .from('profiles').select(...).eq('id', id).single()
selectProfile(id) ==
    IF id \in DOMAIN profiles THEN profiles[id] ELSE NoProfile

NoUser == [id |-> "", name |-> "", role |-> ""]

\* checkMinRole(minRole) on a request with this authorization header: next
\* is called with req.user set, or an error is sent.
checkMinRole(minRole, authHeader) ==
    LET token == IF Len(authHeader) >= 2 THEN authHeader[2] ELSE ""
        user == getUser(token)
        profile == selectProfile(user)
        userLevel == rolePriority(profile.role)
        requiredLevel == rolePriority(minRole)
        stops(status, message) ==
            [next |-> FALSE, user |-> NoUser, response |-> sendError(status, message)]
    IN  IF Len(authHeader) = 0 THEN stops(401, "Missing authorization header")
        ELSE IF token = "" THEN stops(401, "Missing token")
        ELSE IF user = "" THEN stops(401, "Invalid token or user not found")
        ELSE IF ~profile.present
        THEN stops(403, "Profile not found or error loading role")
        ELSE IF Less(userLevel, requiredLevel)
        THEN stops(403, "Access denied: you do not have the required role")
        ELSE [next |-> TRUE,
              user |-> [id |-> user, name |-> profile.name, role |-> profile.role],
              response |-> NoResponse]

\* The routes: PATCH /users/:id and GET /users.
UserRoutes == {"PATCH /users/:id", "GET /users"}
RouteMinRole(route) == IF route = "GET /users" THEN Roles.ADMIN ELSE Roles.USER

\* The :id of PATCH /users/:id.
TargetIds == Users

\* The bodies of PATCH /users/:id, of the type UpdateUserPayload.
UpdateBody(name, password, role) == [name |-> name, password |-> password, role |-> role]
UpdateUserBodies ==
    {UpdateBody(Undefined, Undefined, Str(Roles.USER)),
     UpdateBody(Undefined, Undefined, Str(Roles.ADMIN)),
     UpdateBody(Undefined, Undefined, Str(Roles.SUPER_ADMIN)),
     UpdateBody(Undefined, Str("pw2"), Undefined),
     UpdateBody(Str("Al"), Str("pw2"), Str(Roles.SUPER_ADMIN))}

NoBody == UpdateBody(Undefined, Undefined, Undefined)

NoAccessReq ==
    [pc |-> "none", route |-> "", header |-> <<>>, id |-> "", body |-> NoBody,
     next |-> FALSE, user |-> NoUser, response |-> NoResponse]

AccessInit ==
    /\ GenInit /\ NoSaves /\ NoSigned /\ NoSanitizeRun /\ NoParseRun
    /\ NoEdits /\ NoFavorites /\ NoReviews
    /\ profiles \in InitialProfiles
    /\ credentials = [u \in Users |-> "pw1"]
    /\ access = NoAccessReq

\* The request as checkMinRole leaves it.
Checked(route, header, id, body) ==
    LET checked == checkMinRole(RouteMinRole(route), header)
    IN  [pc |-> IF checked.next THEN "handler" ELSE "answered",
         route |-> route, header |-> header, id |-> id, body |-> body,
         next |-> checked.next, user |-> checked.user, response |-> checked.response]

\* A request arrives and runs through checkMinRole of its route.
CheckMinRole ==
    /\ access.pc \in {"none", "answered"}
    /\ \E header \in AuthHeaders :
         \/ \E id \in TargetIds, body \in UpdateUserBodies :
               access' = Checked("PATCH /users/:id", header, id, body)
         \/ access' = Checked("GET /users", header, "", NoBody)
    /\ UNCHANGED <<profiles, credentials>>
    /\ UNCHANGED <<genVars, saveVars, pureVars, edits, favVars, reviewVars>>

\* updateUserById.
UpdateUserById ==
    /\ access.pc = "handler"
    /\ access.route = "PATCH /users/:id"
    /\ LET id == access.id
           name == access.body.name
           password == access.body.password
           role == access.body.role
           requester == access.user
           targetProfile == selectProfile(id)
           requesterPriority == rolePriority(requester.role)
           named == IF Falsy(name) THEN targetProfile
                    ELSE [targetProfile EXCEPT !.name = name.v]
           updated == IF Falsy(role) THEN named ELSE [named EXCEPT !.role = role.v]
       IN  IF ~targetProfile.present
           THEN /\ access' = [access EXCEPT !.pc = "answered",
                                 !.response = sendError(404, "Target profile not found")]
                /\ UNCHANGED <<profiles, credentials>>
           ELSE IF ~Falsy(role) /\ LessEq(requesterPriority, rolePriority(role.v))
           THEN /\ access' = [access EXCEPT !.pc = "answered",
                                 !.response = sendError(403,
                                     "You cannot assign a role equal to or higher than yours")]
                /\ UNCHANGED <<profiles, credentials>>
           ELSE /\ credentials' = IF Falsy(password) THEN credentials
                                  ELSE [credentials EXCEPT ![id] = password.v]
                /\ profiles' = [profiles EXCEPT ![id] = updated]
                /\ access' = [access EXCEPT !.pc = "answered",
                                 !.response = sendSuccess(200, "User updated successfully",
                                     <<[id |-> id, name |-> updated.name, role |-> updated.role]>>)]
    /\ UNCHANGED <<genVars, saveVars, pureVars, edits, favVars, reviewVars>>

\* getUsers: every auth user with the name and the role of its profile.
GetUsers ==
    /\ access.pc = "handler"
    /\ access.route = "GET /users"
    /\ access' = [access EXCEPT !.pc = "answered",
                     !.response = sendSuccess(200, "Retrieved users successfully",
                         [u \in Users |->
                            [id |-> u,
                             name |-> IF profiles[u].present THEN profiles[u].name
                                      ELSE "not found",
                             role |-> IF profiles[u].present /\ profiles[u].role # UnsetRole
                                      THEN profiles[u].role ELSE Roles.USER]])]
    /\ UNCHANGED <<profiles, credentials>>
    /\ UNCHANGED <<genVars, saveVars, pureVars, edits, favVars, reviewVars>>

AccessNext ==
    \/ CheckMinRole
    \/ UpdateUserById
    \/ GetUsers

AccessSpec == AccessInit /\ [][AccessNext]_vars

(***************************************************************************)
(* The claims about checkMinRole and updateUserById.                       *)
(***************************************************************************)
\* The bearer token of the header resolves to a user whose profile exists
\* and whose role has a priority, one that is at least the priority of
\* minRole.
Entitled(minRole, authHeader) ==
    LET user == getUser(IF Len(authHeader) >= 2 THEN authHeader[2] ELSE "")
        profile == selectProfile(user)
    IN  /\ user # ""
        /\ profile.present
        /\ rolePriority(profile.role).t = "num"
        /\ rolePriority(profile.role).v >= rolePriority(minRole).v

\* checkMinRole has just run: the handler has not yet.
JustChecked == access.pc = "handler" \/ (access.pc = "answered" /\ ~access.next)

\* C25: checkMinRole(minRole) calls next, with req.user set, only when the
\* bearer token resolves to a user whose profile exists and whose role has
\* a priority of at least that of minRole; in every other case (no header,
\* no token, invalid token, no profile, lower or undefined priority) it
\* answers 401 or 403, does not call next and leaves req.user unset.
C25_OnlySufficientRolePasses ==
    JustChecked =>
       IF Entitled(RouteMinRole(access.route), access.header)
       THEN access.next /\ access.user # NoUser
       ELSE /\ ~access.next
            /\ access.response.status \in {401, 403}
            /\ access.user = NoUser

\* The rank of a role: its priority, and nothing for a role without one.
Level(role) ==
    IF rolePriority(role).t = "num" THEN rolePriority(role).v ELSE 0

UpdateUserByIdRuns ==
    /\ access.pc = "handler"
    /\ access.route = "PATCH /users/:id"
    /\ access'.pc = "answered"

\* C27: updateUserById answers a request for a role of a priority equal to
\* or higher than the requester's own with 403 'You cannot assign a role
\* equal to or higher than yours' and writes nothing, password and
\* profile staying as they were; so no request raises the role of the
\* user who makes it.
C27_NoRoleAtOrAboveOwn ==
    [][UpdateUserByIdRuns =>
          /\ (/\ ~Falsy(access.body.role)
              /\ selectProfile(access.id).present
              /\ Level(access.body.role.v) >= Level(access.user.role))
             => /\ access'.response =
                      sendError(403, "You cannot assign a role equal to or higher than yours")
                /\ profiles' = profiles
                /\ credentials' = credentials
          /\ Level(profiles'[access.user.id].role) <= Level(profiles[access.user.id].role)
      ]_vars

(***************************************************************************)
(* controllers/recipes.controller: updateRecipeById and deleteRecipeById  *)
(* behind checkMinRole('user') and validateFields(updateRecipeSchema).    *)
(***************************************************************************)
updateRecipeSchema ==
    << <<"title", "string?">>, <<"description", "string?">>,
       <<"ingredients", "string[]?">>, <<"steps", "string[]?">>,
       <<"kcal", "number>=0?">>, <<"carbs", "number>=0?">>,
       <<"protein", "number>=0?">>, <<"fat", "number>=0?">>,
       <<"image_url", "string?">> >>

\* The refinement of updateRecipeSchema: some value is not undefined.
someFieldProvided(data) == \E i \in DOMAIN data.v : data.v[i][2].t # "undef"

\* validateFields(updateRecipeSchema) on the body of a PATCH.
validateUpdate(body) ==
    LET parsed == safeParse(updateRecipeSchema, body)
    IN  IF parsed.success /\ someFieldProvided(parsed.data)
        THEN [next |-> TRUE, response |-> NoResponse]
        ELSE [next |-> FALSE, response |-> sendError(400, "Validation error")]

\* A row of the recipes table as saveGeneratedRecipe wrote it.
SavedRow(i, user) ==
    [id |-> i,
     title |-> Str(Titles[i]), description |-> Str("tasty"),
     ingredients |-> Arr(<<Str("2 eggs")>>), steps |-> Arr(<<Str("whisk"), Str("fry")>>),
     kcal |-> Num(100 * i), carbs |-> Num(0), protein |-> Num(12), fat |-> Num(7),
     image_url |-> Str(placeholderUrl),
     user_id |-> user, hash |-> createHmac(secret, Str(Titles[i]))]

\* req.user as checkMinRole sets it: the id and the role of the profile.
Requesters ==
    {[id |-> "alice", role |-> Roles.USER],
     [id |-> "bob", role |-> Roles.ADMIN],
     [id |-> "carol", role |-> UnsetRole]}

\* The :id of the request: a row of the table, or an id no row has.
RecipeIds == 1..3

\* The bodies of PATCH /recipes/:id.
UpdateRecipeBodies ==
    {Obj(<< <<"kcal", Num(0)>> >>),
     Obj(<< <<"title", Str("")>>, <<"kcal", Num(0)>>, <<"fat", Num(3)>> >>),
     Obj(<< <<"title", Str("New")>>, <<"description", Str("plain")>>,
            <<"ingredients", Arr(<<>>)>>, <<"steps", Arr(<<Str("stir")>>)>>,
            <<"carbs", Num(5)>>, <<"protein", Num(0)>>,
            <<"image_url", Str("https://example.org/x.png")>> >>),
     Obj(<<>>)}

IsNumber(x) == x.t = "num" \/ x.t = "inf"

\* Mutant of recipeUpdates: the numbers are tested as the strings are.
recipeUpdatesTruthy(body) ==
    SelectSeq(updateRecipeSchema,
              LAMBDA f : LET given == Get(body, f[1])
                         IN  IF f[2] = "number>=0?"
                             THEN IsNumber(given) /\ given # Num(0)
                             ELSE ~Falsy(given))

\* recipeUpdates: the fields of the schema the handler copies from the
\* body, a string and an array when truthy, a number when
\* typeof is 'number'.
recipeUpdates(body) ==
    SelectSeq(updateRecipeSchema,
              LAMBDA f : LET given == Get(body, f[1])
                         IN  IF f[2] = "number>=0?" THEN IsNumber(given)
                             ELSE ~Falsy(given))

Updates(fields) == {fields[i][1] : i \in DOMAIN fields}

\* .update(recipeUpdates).eq('id', id)
updateRow(row, body) ==
    LET written == Updates(recipeUpdates(body))
    IN  [f \in DOMAIN row |-> IF f \in written THEN Get(body, f) ELSE row[f]]

\* .from('recipes').select(...).eq('id', id).single(): the rows found.
RowsWithId(id) == SelectSeq(recipes, LAMBDA row : row.id = id)

NoEdit ==
    [method |-> "", requester |-> NoUser, id |-> 0, body |-> Undefined,
     before |-> <<>>, response |-> NoResponse]

EditInit ==
    /\ GenInit /\ NoSigned /\ NoSanitizeRun /\ NoParseRun
    /\ NoAccess /\ NoFavorites /\ NoReviews
    /\ saves = <<>>
    /\ recipes = <<SavedRow(1, "alice"), SavedRow(2, "bob")>>
    /\ edits = NoEdit

\* The requester may write the recipe: the author, or a priority that is
\* not below admin's.
MayWrite(requester, recipe) ==
    LET isAuthor == recipe.user_id = requester.id
        requesterPriority == rolePriority(requester.role)
    IN  ~(~isAuthor /\ Less(requesterPriority, rolePriority(Roles.ADMIN)))

\* PATCH /recipes/:id: validateFields, then updateRecipeById.
UpdateRecipeById ==
    /\ \E requester \in Requesters, id \in RecipeIds, body \in UpdateRecipeBodies :
         LET validated == validateUpdate(body)
             found == RowsWithId(id)
             request == [method |-> "PATCH", requester |-> requester, id |-> id,
                         body |-> body, before |-> recipes, response |-> NoResponse]
             updated == [i \in DOMAIN recipes |->
                           IF recipes[i].id = id THEN updateRow(recipes[i], body)
                           ELSE recipes[i]]
         IN  IF ~validated.next
             THEN /\ edits' = [request EXCEPT !.response = validated.response]
                  /\ UNCHANGED recipes
             ELSE IF Len(found) # 1
             THEN /\ edits' = [request EXCEPT !.response = sendError(404, "Recipe not found")]
                  /\ UNCHANGED recipes
             ELSE IF ~MayWrite(requester, found[1])
             THEN /\ edits' = [request EXCEPT !.response = sendError(403,
                       "You can only update your own recipes unless you have higher privileges")]
                  /\ UNCHANGED recipes
             ELSE /\ recipes' = updated
                  /\ edits' = [request EXCEPT !.response =
                         sendSuccess(200, "Recipe updated successfully",
                                     SelectSeq(updated, LAMBDA row : row.id = id))]
    /\ UNCHANGED <<saves, genVars, pureVars, accessVars, favVars, reviewVars>>

\* DELETE /recipes/:id: deleteRecipeById.
DeleteRecipeById ==
    /\ \E requester \in Requesters, id \in RecipeIds :
         LET found == RowsWithId(id)
             request == [method |-> "DELETE", requester |-> requester, id |-> id,
                         body |-> Undefined, before |-> recipes, response |-> NoResponse]
         IN  IF Len(found) # 1
             THEN /\ edits' = [request EXCEPT !.response = sendError(404, "Recipe not found")]
                  /\ UNCHANGED recipes
             ELSE IF ~MayWrite(requester, found[1])
             THEN /\ edits' = [request EXCEPT !.response =
                         sendError(403, "You are not allowed to delete this recipe")]
                  /\ UNCHANGED recipes
             ELSE /\ recipes' = SelectSeq(recipes, LAMBDA row : row.id # id)
                  /\ edits' = [request EXCEPT !.response =
                         sendSuccess(200, "Recipe deleted successfully", found)]
    /\ UNCHANGED <<saves, genVars, pureVars, accessVars, favVars, reviewVars>>

EditNext ==
    \/ UpdateRecipeById
    \/ DeleteRecipeById

EditSpec == EditInit /\ [][EditNext]_vars

(***************************************************************************)
(* The claims about updateRecipeById and deleteRecipeById.                 *)
(***************************************************************************)
\* The rows the request named, as they were when it arrived.
Target == SelectSeq(edits.before, LAMBDA row : row.id = edits.id)

AtLeastAdmin(requester) ==
    /\ rolePriority(requester.role).t = "num"
    /\ rolePriority(requester.role).v >= rolePriority(Roles.ADMIN).v

AuthorOrAdmin ==
    /\ Len(Target) = 1
    /\ Target[1].user_id = edits.requester.id \/ AtLeastAdmin(edits.requester)

\* C26: updateRecipeById and deleteRecipeById write to a recipe only for
\* its author or a requester whose role priority is at least admin's; any
\* other requester is answered 403 and a missing recipe 404, the table
\* staying as it was.
C26_OnlyAuthorOrAdminWrites ==
    (edits.method # "" /\ edits.response.status # 400) =>
       /\ recipes # edits.before => AuthorOrAdmin
       /\ Len(Target) = 0 =>
             edits.response.status = 404 /\ recipes = edits.before
       /\ (Len(Target) = 1 /\ ~AuthorOrAdmin) =>
             edits.response.status = 403 /\ recipes = edits.before

\* C30: updateRecipeById changes only fields the body supplies: a column
\* whose field the body lacks keeps its value, a number the body gives is
\* written, 0 included, and every other row stays as it was.
C30_OnlySuppliedFieldsChange ==
    edits.method = "PATCH" =>
       /\ Len(recipes) = Len(edits.before)
       /\ \A i \in DOMAIN edits.before :
             LET old == edits.before[i]
                 new == recipes[i]
             IN  IF old.id # edits.id THEN new = old
                 ELSE \A f \in DOMAIN old :
                        /\ ~HasKey(edits.body, f) => new[f] = old[f]
                        /\ (edits.response.status = 200 /\ Get(edits.body, f).t = "num")
                              => new[f] = Get(edits.body, f)

\* A body with kcal 0, fat 3 and an empty title was applied to a row.
C30_Witness ==
    /\ edits.method = "PATCH"
    /\ edits.response.status = 200
    /\ Get(edits.body, "kcal") = Num(0)
    /\ Len(Target) = 1
    /\ Target[1].kcal # Num(0)
    /\ \E i \in DOMAIN recipes :
          /\ recipes[i].id = edits.id
          /\ recipes[i].kcal = Num(0)
          /\ recipes[i].fat = Num(3)
          /\ recipes[i].carbs = Target[1].carbs
          /\ recipes[i].title = Target[1].title

(***************************************************************************)
(* controllers/recipes.controller: addToFavorites and deleteFromFavorites.*)
(* Every awaited database call is a step of its own, so the requests      *)
(* interleave.                                                             *)
(***************************************************************************)
\* The number of favorites requests.
MaxFavReqs == 2

Favorite(id, user, recipe_id) == [id |-> id, user_id |-> user, recipe_id |-> recipe_id]

\* .from('favorites').select('id').eq('user_id', user.id).eq('recipe_id', recipe_id)
FavoritesOf(user, recipe_id) ==
    SelectSeq(favorites, LAMBDA row : row.user_id = user /\ row.recipe_id = recipe_id)

\* .single(): the row and no error for exactly one row, no row and an
\* error otherwise.
single(found) ==
    IF Len(found) = 1 THEN [data |-> found, error |-> FALSE]
    ELSE [data |-> <<>>, error |-> TRUE]

NoFavReq ==
    [pc |-> "none", method |-> "", user |-> "", recipe_id |-> 0, inserted |-> FALSE,
     response |-> NoResponse]

FavInit ==
    /\ GenInit /\ NoSigned /\ NoSanitizeRun /\ NoParseRun
    /\ NoAccess /\ NoEdits /\ NoReviews
    /\ saves = <<>>
    /\ recipes = <<SavedRow(1, "alice"), SavedRow(2, "bob")>>
    /\ favorites \in {<<>>, <<Favorite(1, "alice", 1)>>}
    /\ favReqs = [r \in 1..MaxFavReqs |-> NoFavReq]

FavAnswered(r, resp) ==
    favReqs' = [favReqs EXCEPT ![r].pc = "done", ![r].response = resp]

\* POST /recipes/:id/favorites arrives: addToFavorites up to the answer of
\* the select on recipes.
AddToFavorites(r) ==
    /\ favReqs[r].pc = "none"
    /\ \E user \in Users, recipe_id \in RecipeIds :
         LET sent == [NoFavReq EXCEPT !.method = "POST", !.user = user,
                                      !.recipe_id = recipe_id]
             recipe == single(RowsWithId(recipe_id))
         IN  IF recipe.error
             THEN favReqs' = [favReqs EXCEPT ![r] =
                     [sent EXCEPT !.pc = "done",
                                  !.response = sendError(404, "Recipe not found")]]
             ELSE favReqs' = [favReqs EXCEPT ![r] = [sent EXCEPT !.pc = "check"]]
    /\ UNCHANGED <<favorites, saveVars, genVars, pureVars, accessVars, edits, reviewVars>>

\* The select on favorites answers.
FavoriteChecked(r) ==
    /\ favReqs[r].pc = "check"
    /\ LET existing == single(FavoritesOf(favReqs[r].user, favReqs[r].recipe_id))
       IN  IF ~existing.error /\ Len(existing.data) > 0
           THEN FavAnswered(r, sendError(400, "Recipe is already in favorites"))
           ELSE favReqs' = [favReqs EXCEPT ![r].pc = "insert"]
    /\ UNCHANGED <<favorites, saveVars, genVars, pureVars, accessVars, edits, reviewVars>>

\* The insert answers.
FavoriteInserted(r) ==
    /\ favReqs[r].pc = "insert"
    /\ LET row == Favorite(Len(favorites) + 1, favReqs[r].user, favReqs[r].recipe_id)
       IN  /\ favorites' = Append(favorites, row)
           /\ favReqs' = [favReqs EXCEPT ![r].pc = "done", ![r].inserted = TRUE,
                             ![r].response =
                                sendSuccess(201, "Recipe added to favorites", <<row>>)]
    /\ UNCHANGED <<saveVars, genVars, pureVars, accessVars, edits, reviewVars>>

\* DELETE /recipes/:id/favorites arrives: deleteFromFavorites up to the
\* answer of the select on favorites.  With .single() a select that finds
\* no row carries an error, so the 404 needs no error and no row at once.
DeleteFromFavorites(r) ==
    /\ favReqs[r].pc = "none"
    /\ \E user \in Users, recipe_id \in RecipeIds :
         LET sent == [NoFavReq EXCEPT !.method = "DELETE", !.user = user,
                                      !.recipe_id = recipe_id]
             existing == single(FavoritesOf(user, recipe_id))
         IN  IF ~existing.error /\ Len(existing.data) = 0
             THEN favReqs' = [favReqs EXCEPT ![r] =
                     [sent EXCEPT !.pc = "done",
                                  !.response = sendError(404, "Recipe not in favorites")]]
             ELSE favReqs' = [favReqs EXCEPT ![r] = [sent EXCEPT !.pc = "delete"]]
    /\ UNCHANGED <<favorites, saveVars, genVars, pureVars, accessVars, edits, reviewVars>>

\* The delete answers: .select().single() on the rows it removed.
FavoriteDeleted(r) ==
    /\ favReqs[r].pc = "delete"
    /\ LET removed == single(FavoritesOf(favReqs[r].user, favReqs[r].recipe_id))
       IN  /\ favorites' = SelectSeq(favorites,
                  LAMBDA row : ~(row.user_id = favReqs[r].user
                                 /\ row.recipe_id = favReqs[r].recipe_id))
           /\ IF removed.error
              THEN FavAnswered(r, sendError(500, "Error deleting from favorites"))
              ELSE FavAnswered(r, sendSuccess(200, "Recipe removed from favorites",
                                              removed.data))
    /\ UNCHANGED <<saveVars, genVars, pureVars, accessVars, edits, reviewVars>>

FavNext ==
    \E r \in 1..MaxFavReqs :
       \/ AddToFavorites(r)
       \/ FavoriteChecked(r)
       \/ FavoriteInserted(r)
       \/ DeleteFromFavorites(r)
       \/ FavoriteDeleted(r)

FavSpec == FavInit /\ [][FavNext]_vars

\* C29: whatever the order and the interleaving of addToFavorites and
\* deleteFromFavorites requests, the favorites table holds at most one
\* row per (user, recipe): an add of a recipe that is a favorite of the
\* user already is answered 400 'Recipe is already in favorites' and an
\* add of a recipe that does not exist 404, neither inserting a row.
C29_OneFavoritePerUserAndRecipe ==
    /\ \A user \in Users, recipe_id \in RecipeIds :
          Len(FavoritesOf(user, recipe_id)) <= 1
    /\ \A r \in 1..MaxFavReqs :
          (favReqs[r].pc = "done" /\ favReqs[r].method = "POST") =>
             /\ Len(RowsWithId(favReqs[r].recipe_id)) = 0 =>
                   favReqs[r].response.status = 404 /\ ~favReqs[r].inserted
             /\ favReqs[r].response.status = 400 =>
                   /\ favReqs[r].response.message = "Recipe is already in favorites"
                   /\ ~favReqs[r].inserted

(***************************************************************************)
(* controllers/recipes.controller: rateRecipe behind checkMinRole('user') *)
(* and validateFields(recipeReviewSchema).  Every awaited database call   *)
(* is a step of its own.                                                   *)
(***************************************************************************)
\* The number of rating requests.
MaxRateReqs == 2

recipeReviewSchema == << <<"rating", "number 1..5">>, <<"comment", "string?">> >>

\* The bodies of POST /recipes/:id/rate.
RateBodies ==
    {Obj(<< <<"rating", Num(5)>> >>),
     Obj(<< <<"rating", Num(2)>>, <<"comment", Str("good")>> >>),
     Obj(<< <<"rating", Num(6)>> >>)}

\* The recipes a rating names: one of the table, one no row has.
RatedIds == {1, 3}

\* .from('recipe_reviews').select('*').eq('user_id', user.id).eq('recipe_id', id)
ReviewsOf(user, recipe_id) ==
    SelectSeq(reviews, LAMBDA row : row.user_id = user /\ row.recipe_id = recipe_id)

\* .maybeSingle(): no row and no error for no row, the row for one, an
\* error for several.
maybeSingle(found) ==
    IF Len(found) > 1 THEN [data |-> <<>>, error |-> TRUE]
    ELSE [data |-> found, error |-> FALSE]

\* Mutant of reviewUpdate: the comment is written whether the body has
\* one or not.
reviewUpdateOverwrites(existing, body) ==
    [existing EXCEPT !.rating = Get(body, "rating"),
                     !.comment = JsonStringify(Get(body, "comment"))]

\* .update(updatePayload).eq('id', existingReview.id): the rating, and the
\* comment when the body has the key.
reviewUpdate(existing, body) ==
    [existing EXCEPT !.rating = Get(body, "rating"),
                     !.comment = IF HasKey(body, "comment") THEN Get(body, "comment")
                                 ELSE @]

\* .insert({ user_id, recipe_id, rating, comment })
newReview(id, user, recipe_id, body) ==
    [id |-> id, user_id |-> user, recipe_id |-> recipe_id,
     rating |-> Get(body, "rating"),
     comment |-> IF HasKey(body, "comment") THEN Get(body, "comment") ELSE Null]

NoRateReq ==
    [pc |-> "none", user |-> "", id |-> 0, body |-> Undefined, overlaps |-> FALSE,
     existing |-> <<>>, written |-> <<>>, response |-> NoResponse]

RateInit ==
    /\ GenInit /\ NoSigned /\ NoSanitizeRun /\ NoParseRun
    /\ NoAccess /\ NoEdits /\ NoFavorites
    /\ saves = <<>>
    /\ recipes = <<SavedRow(1, "alice"), SavedRow(2, "bob")>>
    /\ reviews = <<>>
    /\ rateReqs = [r \in 1..MaxRateReqs |-> NoRateReq]

InFlight(r) == rateReqs[r].pc \in {"check", "update", "insert"}

\* POST /recipes/:id/rate arrives: validateFields, then rateRecipe up to
\* the answer of the select on recipes.
RateRecipe(r) ==
    /\ rateReqs[r].pc = "none"
    /\ \E user \in Users, id \in RatedIds, body \in RateBodies :
         LET sent == [NoRateReq EXCEPT !.user = user, !.id = id, !.body = body,
                         !.overlaps = \E q \in 1..MaxRateReqs : InFlight(q)]
             validated == validateFields(recipeReviewSchema, body)
             recipe == maybeSingle(RowsWithId(id))
         IN  IF ~validated.next
             THEN rateReqs' = [rateReqs EXCEPT ![r] =
                     [sent EXCEPT !.pc = "done", !.response = validated.response]]
             ELSE IF recipe.error \/ Len(recipe.data) = 0
             THEN rateReqs' = [rateReqs EXCEPT ![r] =
                     [sent EXCEPT !.pc = "done",
                                  !.response = sendError(404, "Recipe not found")]]
             ELSE rateReqs' = [rateReqs EXCEPT ![r] = [sent EXCEPT !.pc = "check"]]
    /\ UNCHANGED <<reviews, saveVars, genVars, pureVars, accessVars, edits, favVars>>

\* The select on recipe_reviews answers.
ReviewChecked(r) ==
    /\ rateReqs[r].pc = "check"
    /\ LET existingReview == maybeSingle(ReviewsOf(rateReqs[r].user, rateReqs[r].id))
       IN  IF existingReview.error
           THEN rateReqs' = [rateReqs EXCEPT ![r].pc = "done",
                   ![r].response = sendError(500, "Failed to check existing review")]
           ELSE rateReqs' = [rateReqs EXCEPT
                   ![r].pc = IF Len(existingReview.data) = 1 THEN "update" ELSE "insert",
                   ![r].existing = existingReview.data]
    /\ UNCHANGED <<reviews, saveVars, genVars, pureVars, accessVars, edits, favVars>>

\* The update of the existing review answers.
ReviewUpdated(r) ==
    /\ rateReqs[r].pc = "update"
    /\ LET row == reviewUpdate(rateReqs[r].existing[1], rateReqs[r].body)
       IN  /\ reviews' = [i \in DOMAIN reviews |->
                            IF reviews[i].id = row.id THEN row ELSE reviews[i]]
           /\ rateReqs' = [rateReqs EXCEPT ![r].pc = "done", ![r].written = <<row>>,
                   ![r].response = sendSuccess(200, "Review saved successfully", <<>>)]
    /\ UNCHANGED <<saveVars, genVars, pureVars, accessVars, edits, favVars>>

\* The insert of a new review answers.
ReviewInserted(r) ==
    /\ rateReqs[r].pc = "insert"
    /\ LET row == newReview(Len(reviews) + 1, rateReqs[r].user, rateReqs[r].id,
                            rateReqs[r].body)
       IN  /\ reviews' = Append(reviews, row)
           /\ rateReqs' = [rateReqs EXCEPT ![r].pc = "done", ![r].written = <<row>>,
                   ![r].response = sendSuccess(200, "Review saved successfully", <<>>)]
    /\ UNCHANGED <<saveVars, genVars, pureVars, accessVars, edits, favVars>>

RateNext ==
    \E r \in 1..MaxRateReqs :
       \/ RateRecipe(r)
       \/ ReviewChecked(r)
       \/ ReviewUpdated(r)
       \/ ReviewInserted(r)

RateSpec == RateInit /\ [][RateNext]_vars

\* The requests came one after the other: none arrived while another was
\* being handled.
InSequence == \A r \in 1..MaxRateReqs : ~rateReqs[r].overlaps

====
